---------------------------- MODULE Spec2Model ----------------------------
(***************************************************************************)
(* Reachability probing engine of the Intune endpoint connectivity checker *)
(* (src/src/lib/endpoint-service.ts): the endpoint classifier and the      *)
(* single-target probe testEndpointConnectivity, and the batch             *)
(* orchestrator testAllEndpoints; and the verdict aggregation of           *)
(* ProxyDetectionService.detectProxy (src/unnamed/part_001).               *)
(*                                                                         *)
(* Strings the code inspects character by character (targets, URLs) are    *)
(* sequences of one-character strings, so that the regular expressions,    *)
(* startsWith, endsWith, includes, trim and toLowerCase of the source are  *)
(* computed and not assumed. Times are integer milliseconds.               *)
(***************************************************************************)
EXTENDS Integers, Sequences, FiniteSets, Bags, TLC

VARIABLES
    \* ---- one call of testEndpointConnectivity ----
    endpoint,      \* the target string (argument)
    timeoutMs,     \* the overall timeout T (argument)
    ppc,           \* position of the probe: init, stun, https, http, done
    elapsed,       \* httpsResponseTime once the HTTPS attempt has failed
    remaining,     \* sub-timeout of the HTTP fallback
    requests,      \* the URLs handed to fetch, in order
    timers,        \* the abort timers that are armed (setTimeout not cleared)
    awaited,       \* how each awaited operation (detectProxy, fetch) ended, in order
    settled,       \* the returned promise: pending, resolved, rejected
    result,        \* the EndpointTest the promise resolved with
    \* ---- one call of testAllEndpoints ----
    endpoints,     \* the input list (argument)
    net,           \* what the network does to each target of the run
    bpc,           \* position of the orchestrator
    i,             \* loop variable of the chunk loop (0-based, as in the code)
    cursor,        \* next batchIndex of the synchronous batch.map
    task,          \* per input index (1-based): idle, notified, running, done
    batchResults,  \* per input index: the value its task's promise resolved with
    results,       \* the results array
    lastProgress,  \* the most recent notification given to onProgress
    emitted,       \* bag of all notifications given to onProgress
    returned,      \* the list testAllEndpoints resolved with (empty before that)
    \* ---- one call of ProxyDetectionService.detectProxy ----
    dpc,           \* position of detectProxy
    externalIP,    \* what getExternalIP resolved with (NullIP for null)
    localIPs,      \* what getLocalIPs resolved with
    headerCheck,   \* what checkProxyHeaders resolved with
    latency,       \* what measureLatency resolved with
    sslInspection, \* what checkSSLInspection resolved with
    detectionMethods, \* the local detectionMethods
    confidence,    \* the local confidence
    verdict,       \* the ProxyDetectionResult detectProxy resolved with
    firstVerdict,  \* what an earlier call of detectProxy resolved with
    \* ---- one call of ProxyDetectionService.isPrivateIP ----
    cpc,           \* position of isPrivateIP: idle, init, done
    octets,        \* the four numbers the argument was written from
    address,       \* the argument ip, a string
    ipPrivate,     \* the value returned
    \* ---- the collectors of one detectProxy call ----
    lpc,           \* the promise of getLocalIPs: idle, pending, resolved, rejected
    pcState,       \* the RTCPeerConnection pc: none, open, closed
    offer,         \* pc.createOffer(): none, ok, failed
    iceListener,   \* pc.onicecandidate is assigned
    iceTimer,      \* the 3000 ms timer of getLocalIPs: none, pending, fired
    iceIps,        \* the array `ips` of getLocalIPs
    spc,           \* checkSSLInspection: idle, sites, returned
    sslDetected,   \* its local `detected`
    sslDetails,    \* its array `details`
    sslReturned,   \* the `detected` of the object it returned
    ws,            \* the WebSocket wsTest: none, connecting, closed, error
    wsTimer,       \* the 2000 ms timer of checkSSLInspection: none, pending, fired
    outcomes       \* how the requests of the other three collectors ended

probeVars == <<endpoint, timeoutMs, ppc, elapsed, remaining, requests, timers,
               awaited, settled, result>>
batchVars == <<endpoints, net, bpc, i, cursor, task, batchResults, results,
               lastProgress, emitted, returned>>
detectVars == <<dpc, externalIP, localIPs, headerCheck, latency, sslInspection,
                detectionMethods, confidence, verdict, firstVerdict>>
classifyVars == <<cpc, octets, address, ipPrivate>>
collectVars == <<lpc, pcState, offer, iceListener, iceTimer, iceIps, spc, sslDetected,
                 sslDetails, sslReturned, ws, wsTimer, outcomes>>
vars == <<probeVars, batchVars, detectVars, classifyVars, collectVars>>

\* What the actions of one call leave alone: the state of the other calls.
notProbe == <<batchVars, detectVars, classifyVars, collectVars>>
notBatch == <<probeVars, detectVars, classifyVars, collectVars>>
notDetect == <<probeVars, batchVars, classifyVars, collectVars>>
notClassify == <<probeVars, batchVars, detectVars, collectVars>>
notDetectNorCollect == <<probeVars, batchVars, classifyVars>>

None == [none |-> TRUE]

\* null, what getExternalIP resolves with when the lookup failed (line 26); the
\* fold tests it for truthiness alone (line 241), which the empty string fails.
NullIP == <<>>

(***************************************************************************)
(* Characters and strings.                                                 *)
(***************************************************************************)
UpperChars ==
    <<"A","B","C","D","E","F","G","H","I","J","K","L","M",
      "N","O","P","Q","R","S","T","U","V","W","X","Y","Z">>
LowerChars ==
    <<"a","b","c","d","e","f","g","h","i","j","k","l","m",
      "n","o","p","q","r","s","t","u","v","w","x","y","z">>
DigitChars == {"0","1","2","3","4","5","6","7","8","9"}

Range(f) == {f[x] : x \in DOMAIN f}

IsDigit(c) == c \in DigitChars
IsLetter(c) == c \in Range(UpperChars) \cup Range(LowerChars)
\* \w of a JavaScript regular expression
IsWord(c) == IsLetter(c) \/ IsDigit(c) \/ c = "_"
\* [\w+.-]
IsSchemeChar(c) == IsWord(c) \/ c \in {"+", ".", "-"}
\* [a-zA-Z0-9.-]
IsHostChar(c) == IsLetter(c) \/ IsDigit(c) \/ c \in {".", "-"}
IsSpace(c) == c \in {" ", "\t", "\n"}

ToLowerChar(c) ==
    IF c \in Range(UpperChars)
    THEN LowerChars[CHOOSE k \in DOMAIN UpperChars : UpperChars[k] = c]
    ELSE c
toLowerCase(s) == [k \in DOMAIN s |-> ToLowerChar(s[k])]

\* s.startsWith(p), s.endsWith(p), s.includes(p)
startsWith(s, p) == Len(p) <= Len(s) /\ SubSeq(s, 1, Len(p)) = p
endsWith(s, p) == Len(p) <= Len(s) /\ SubSeq(s, Len(s) - Len(p) + 1, Len(s)) = p
MatchAt(s, k, p) == k >= 1 /\ k + Len(p) - 1 <= Len(s) /\ SubSeq(s, k, k + Len(p) - 1) = p
includes(s, p) == \E k \in 1..(Len(s) + 1) : MatchAt(s, k, p)

\* s.trim()
trim(s) ==
    LET keep == {k \in DOMAIN s : ~IsSpace(s[k])}
    IN  IF keep = {} THEN <<>>
        ELSE SubSeq(s, CHOOSE a \in keep : \A b \in keep : a <= b,
                       CHOOSE a \in keep : \A b \in keep : a >= b)

\* Character classes by name, for the run operators below.
InClass(cls, c) ==
    CASE cls = "digit" -> IsDigit(c)
      [] cls = "letter" -> IsLetter(c)
      [] cls = "scheme" -> IsSchemeChar(c)
      [] cls = "host" -> IsHostChar(c)
      [] OTHER -> FALSE

\* Last index e >= p - 1 such that every character of s[p..e] is in cls
\* (where a greedy X* or X+ starting at p stops).
RunEnd(s, p, cls) ==
    LET ok == {e \in (p - 1)..Len(s) : \A k \in p..e : InClass(cls, s[k])}
    IN  CHOOSE e \in ok : \A f \in ok : f <= e

Max(S) == CHOOSE x \in S : \A y \in S : y <= x
Min(S) == CHOOSE x \in S : \A y \in S : x <= y

\* First index of character c in s at or after p, 0 when there is none.
IndexOf(s, c, p) ==
    LET hits == {k \in p..Len(s) : s[k] = c}
    IN  IF hits = {} THEN 0 ELSE CHOOSE k \in hits : \A h \in hits : k <= h

\* \b of a JavaScript regular expression between s[k-1] and s[k].
WordBoundary(s, k) ==
    LET before == k - 1 >= 1 /\ IsWord(s[k - 1])
        after == k <= Len(s) /\ IsWord(s[k])
    IN  before # after

(***************************************************************************)
(* Endpoint classifier: lines 105-126 of testEndpointConnectivity.         *)
(***************************************************************************)
S_http ==
    <<"h","t","t","p">>
S_https ==
    <<"h","t","t","p","s">>
S_httpsPrefix ==
    <<"h","t","t","p","s",":","/","/">>
S_httpPrefix ==
    <<"h","t","t","p",":","/","/">>
S_colonSlashSlash ==
    <<":","/","/">>
S_port123 ==
    <<":","1","2","3">>
S_ntp ==
    <<"n","t","p">>
S_udp ==
    <<"u","d","p">>
KnownUdpSuffix ==
    <<"t","i","m","e",".","w","i","n","d","o","w","s",".","c","o","m">>
UdpSchemes ==
    { <<"s","t","u","n">>, <<"s","t","u","n","s">>, <<"t","u","r","n">>,
      <<"t","u","r","n","s">>, S_ntp, S_udp }

\* End positions q of a match of (?:\d{1,3}\.){3}\d{1,3} that starts at p.
QuadEnds(s, p) ==
    { p + a + b + c + d + 2 : a \in 1..3, b \in 1..3, c \in 1..3, d \in 1..3 } \cap
    { q \in p..Len(s) :
        \E a \in 1..3, b \in 1..3, c \in 1..3, d \in 1..3 :
          /\ q = p + a + b + c + d + 2
          /\ \A k \in p..(p + a - 1) : IsDigit(s[k])
          /\ s[p + a] = "."
          /\ \A k \in (p + a + 1)..(p + a + b) : IsDigit(s[k])
          /\ s[p + a + b + 1] = "."
          /\ \A k \in (p + a + b + 2)..(p + a + b + c + 1) : IsDigit(s[k])
          /\ s[p + a + b + c + 2] = "."
          /\ \A k \in (p + a + b + c + 3)..q : IsDigit(s[k]) }

\* /^\d{1,3}\.\d{1,3}\.\d{1,3}\.\d{1,3}$/.test(endpoint)
isIP(s) == Len(s) \in QuadEnds(s, 1)

\* endpoint.match(/^([a-zA-Z][\w+.-]*):/)?.[1]?.toLowerCase(); <<>> for undefined.
\* The class [\w+.-] excludes ":", so the greedy run must be followed by ":".
SchemeOf(s) ==
    IF Len(s) >= 1 /\ IsLetter(s[1])
    THEN LET e == RunEnd(s, 2, "scheme")
         IN  IF e + 1 <= Len(s) /\ s[e + 1] = ":"
             THEN toLowerCase(SubSeq(s, 1, e))
             ELSE <<>>
    ELSE <<>>

\* !!scheme && scheme !== 'http' && scheme !== 'https'
isNonHttpScheme(s) ==
    LET scheme == SchemeOf(s)
    IN  scheme # <<>> /\ scheme # S_http /\ scheme # S_https

\* !!scheme && ['stun','stuns','turn','turns','ntp','udp'].includes(scheme)
schemeIsUdpish(s) ==
    LET scheme == SchemeOf(s)
    IN  scheme # <<>> /\ scheme \in UdpSchemes

\* /(^|\b)(ntp|udp)(\b|:)/i.test(raw) || /:123(\b|$)/.test(raw)
hintUdpInString(raw) ==
    \/ \E k \in 1..Len(raw) :
         /\ k = 1 \/ WordBoundary(raw, k)
         /\ \/ MatchAt(toLowerCase(raw), k, S_ntp)
            \/ MatchAt(toLowerCase(raw), k, S_udp)
         /\ \/ WordBoundary(raw, k + 3)
            \/ (k + 3 <= Len(raw) /\ raw[k + 3] = ":")
    \/ \E k \in 1..Len(raw) :
         /\ MatchAt(raw, k, S_port123)
         /\ WordBoundary(raw, k + 4) \/ k + 4 = Len(raw) + 1

\* End of the match of [a-zA-Z0-9.-]+\.[a-zA-Z]{2,} that starts at p, 0 when it
\* does not match: the greedy + backtracks to the last "." of the run that has
\* a character before it and two letters after it.
FqdnEnd(s, p) ==
    LET r == RunEnd(s, p, "host")
        dots == {k \in (p + 1)..r :
                   s[k] = "." /\ RunEnd(s, k + 1, "letter") >= k + 2}
    IN  IF dots = {} THEN 0 ELSE RunEnd(s, Max(dots) + 1, "letter")

\* raw.match(/([a-zA-Z0-9.-]+\.[a-zA-Z]{2,}|(?:\d{1,3}\.){3}\d{1,3})/)?.[0]
\*    ?.toLowerCase() ?? ''  : the leftmost match, first alternative first.
hostCandidateOf(raw) ==
    LET starts == {p \in 1..Len(raw) : FqdnEnd(raw, p) > 0 \/ QuadEnds(raw, p) # {}}
    IN  IF starts = {} THEN <<>>
        ELSE LET p == Min(starts)
                 q == IF FqdnEnd(raw, p) > 0 THEN FqdnEnd(raw, p)
                      ELSE Max(QuadEnds(raw, p))
             IN  toLowerCase(SubSeq(raw, p, q))

\* /^[a-zA-Z][\w+.-]*:\/\//.test(raw)
hasSchemeSlashes(raw) ==
    /\ Len(raw) >= 1
    /\ IsLetter(raw[1])
    /\ MatchAt(raw, RunEnd(raw, 2, "scheme") + 1, S_colonSlashSlash)

\* new URL(u).hostname for a u of the form scheme://..., <<>> where the
\* constructor throws: the authority ends at the first "/", "?" or "#", loses
\* its userinfo and its port (digits only), and must be a non-empty host name.
URLhostname(u) ==
    LET from == IndexOf(u, "/", 1) + 2
        stops == {k \in from..Len(u) : u[k] \in {"/", "?", "#"}}
        authority == SubSeq(u, from, IF stops = {} THEN Len(u) ELSE Min(stops) - 1)
        ats == {k \in DOMAIN authority : authority[k] = "@"}
        hostport == IF ats = {} THEN authority
                    ELSE SubSeq(authority, Max(ats) + 1, Len(authority))
        colons == {k \in DOMAIN hostport : hostport[k] = ":"}
        host == IF colons = {} THEN hostport ELSE SubSeq(hostport, 1, Max(colons) - 1)
        port == IF colons = {} THEN <<>>
                ELSE SubSeq(hostport, Max(colons) + 1, Len(hostport))
    IN  IF /\ host # <<>>
           /\ \A k \in DOMAIN host : IsHostChar(host[k]) \/ host[k] = "_"
           /\ \A k \in DOMAIN port : IsDigit(port[k])
        THEN toLowerCase(host)
        ELSE <<>>

\* lines 116-120: hostname stays '' when the URL constructor throws
hostnameOf(raw) ==
    IF hasSchemeSlashes(raw) THEN URLhostname(raw) ELSE URLhostname(S_httpsPrefix \o raw)

\* line 124
isKnownUdpService(raw) ==
    \/ endsWith(hostnameOf(raw), KnownUdpSuffix)
    \/ endsWith(hostCandidateOf(raw), KnownUdpSuffix)
    \/ includes(toLowerCase(raw), KnownUdpSuffix)

\* line 110 without its two comparisons: every scheme counts as non-HTTP.
usesStunAnyScheme(s) ==
    \/ SchemeOf(s) # <<>>
    \/ schemeIsUdpish(s)
    \/ hintUdpInString(trim(s))
    \/ isKnownUdpService(trim(s))

\* line 126: the condition that routes the target to the WebRTC STUN probe
usesStun(s) ==
    \/ isNonHttpScheme(s)
    \/ schemeIsUdpish(s)
    \/ hintUdpInString(trim(s))
    \/ isKnownUdpService(trim(s))

(***************************************************************************)
(* The targets the probe is run on.                                        *)
(***************************************************************************)
T_Fqdn ==
    <<"h",".","c","o">>
T_Ip ==
    <<"1",".","2",".","3",".","4">>
T_Http ==
    <<"h","t","t","p",":","/","/","h",".","c","o">>
T_Https ==
    <<"h","t","t","p","s",":","/","/","h",".","c","o">>
T_Ftp ==
    <<"f","t","p",":","/","/","h",".","c","o">>
T_HostPort ==
    <<"h",".","c","o",":","4","4","3">>
T_Stun ==
    <<"s","t","u","n",":","h",".","c","o">>
T_NtpToken ==
    <<"n","t","p",".","h",".","o","r","g">>
T_Port123 ==
    <<"1",".","2",".","3",".","4",":","1","2","3">>
T_TimeWin ==
    <<"t","i","m","e",".","w","i","n","d","o","w","s",".","c","o","m">>
T_UpperHttps ==
    <<"H","T","T","P","S",":","/","/","h",".","c","o">>
T_Httpbin ==
    <<"h","t","t","p","b","i","n",".","o","r","g">>
T_Padded ==
    <<" ","h",".","c","o">>
T_Port1234 ==
    <<"1",".","2",".","3",".","4",":","1","2","3","4">>
T_Ntpd ==
    <<"n","t","p","d",".","h",".","c","o">>
T_UdpPadded ==
    <<" ","u","d","p",":","/","/","h",".","c","o">>

Targets ==
    { T_Fqdn, T_Ip, T_Http, T_Https, T_Ftp, T_HostPort, T_Stun, T_NtpToken,
      T_Port123, T_TimeWin, T_UpperHttps, T_Httpbin, T_Padded, T_Port1234,
      T_Ntpd, T_UdpPadded }

(***************************************************************************)
(* What the environment can do to one probe.                               *)
(***************************************************************************)
\* The default of the timeoutMs parameter.
DefaultTimeoutMs == 10000

Timeouts == {DefaultTimeoutMs, 2000, 1200}

\* Messages of the errors a rejected fetch carries in the major browsers, and
\* two that mention CORS.
NetworkMessages ==
    { "Failed to fetch",
      "NetworkError when attempting to fetch resource.",
      "Load failed",
      "Request blocked by CORS policy",
      "CORS preflight did not succeed" }
AbortMessages ==
    { "signal is aborted without reason",
      "Failed to fetch: the request was aborted" }

\* message.includes(needle), for the messages above and the four needles of
\* lines 234-237 and 293-296.
messageIncludes(message, needle) ==
    CASE needle = "Failed to fetch" ->
           message \in {"Failed to fetch", "Failed to fetch: the request was aborted"}
      [] needle = "NetworkError" ->
           message \in {"NetworkError when attempting to fetch resource."}
      [] needle = "blocked by CORS" -> message \in {"Request blocked by CORS policy"}
      [] needle = "CORS" ->
           message \in {"Request blocked by CORS policy", "CORS preflight did not succeed"}
      [] OTHER -> FALSE

\* Values a promise can reject with: Error objects, and a value that is no Error.
NetworkErrors ==
    [isError : {TRUE}, name : {"TypeError"}, message : NetworkMessages]
AbortErrors ==
    [isError : {TRUE}, name : {"AbortError"}, message : AbortMessages]
NonError == [isError |-> FALSE]
SetupErrors ==
    { [isError |-> TRUE, name |-> "ReferenceError",
       message |-> "AbortController is not defined"],
      NonError }
DelegateErrors ==
    { [isError |-> TRUE, name |-> "Error", message |-> "ICE gathering failed"],
      NonError }

\* How a fetch that is not aborted ends.
FetchOk == [kind |-> "ok"]
Thrown(e) == [kind |-> "throw", error |-> e]
FetchOutcomes == {FetchOk} \cup {Thrown(e) : e \in NetworkErrors \cup {NonError}}

\* Instants (ms after the attempt started) at which an attempt with time
\* budget b can end: early, around 0.8 * b, around b - 1000, and at b.
ElapsedSamples(b) ==
    {200, (b * 8) \div 10 - 1, (b * 8) \div 10, (b * 8) \div 10 + 1,
     b - 1001, b - 1000, b - 999, b} \cap 0..b

\* The webrtc part of what detectProxy resolves with; None when the verdict
\* has no webrtc field.
WebrtcOutcomes ==
    { None,
      [supported |-> FALSE, stunSucceeded |-> FALSE, relayOnly |-> FALSE],
      [supported |-> TRUE, stunSucceeded |-> TRUE, relayOnly |-> FALSE],
      [supported |-> TRUE, stunSucceeded |-> FALSE, relayOnly |-> TRUE],
      [supported |-> TRUE, stunSucceeded |-> FALSE, relayOnly |-> FALSE] }
StunDurations == {50, 3000}

(***************************************************************************)
(* testEndpointConnectivity: the values it returns, return by return.      *)
(***************************************************************************)
ErrorResult(url, rt, err, method) ==
    [url |-> url, status |-> "error", responseTime |-> rt, error |-> err,
     method |-> method]
SuccessResult(url, rt, method) ==
    [url |-> url, status |-> "success", responseTime |-> rt, method |-> method]

\* An exception that leaves the function.
Raise(e) == [raise |-> e]

\* An error text of a result. Every text is a record, so that the two texts
\* built from a number (the timeouts) compare with the others.
Msg(text) == [text |-> text]

\* e instanceof Error ? e.message : fallback
messageOr(e, fallback) == IF e.isError THEN Msg(e.message) ELSE Msg(fallback)

\* lines 133-163 with the two messages of lines 158-160 exchanged.
StunResultMessagesSwapped(url, webrtc, rt) ==
    IF webrtc = None \/ ~webrtc.supported
    THEN ErrorResult(url, rt,
           Msg("WebRTC not supported in this browser (cannot run UDP/STUN test)"),
           "webrtc-stun")
    ELSE IF webrtc.stunSucceeded
    THEN SuccessResult(url, rt, "webrtc-stun")
    ELSE ErrorResult(url, rt,
           IF webrtc.relayOnly
           THEN Msg("STUN failed (UDP likely blocked)")
           ELSE Msg("Only TURN relay observed (UDP restricted or strict NAT)"),
           "webrtc-stun")

\* lines 133-163: the verdict of detectProxy mapped to a result
StunResult(url, webrtc, rt) ==
    IF webrtc = None \/ ~webrtc.supported
    THEN ErrorResult(url, rt,
           Msg("WebRTC not supported in this browser (cannot run UDP/STUN test)"),
           "webrtc-stun")
    ELSE IF webrtc.stunSucceeded
    THEN SuccessResult(url, rt, "webrtc-stun")
    ELSE ErrorResult(url, rt,
           IF webrtc.relayOnly
           THEN Msg("Only TURN relay observed (UDP restricted or strict NAT)")
           ELSE Msg("STUN failed (UDP likely blocked)"),
           "webrtc-stun")

\* lines 164-174 with the method tag of the HTTP path.
StunCatchHttpMethod(url, e, rt) ==
    ErrorResult(url, rt, messageOr(e, "STUN/ICE probe failed"), "http-head-https")

\* lines 164-174: detectProxy rejected
StunCatch(url, e, rt) ==
    ErrorResult(url, rt, messageOr(e, "STUN/ICE probe failed"), "webrtc-stun")

\* lines 178-186
testUrlOf(s) ==
    IF isIP(s) THEN S_httpsPrefix \o s
    ELSE IF startsWith(s, S_http) THEN s ELSE S_httpsPrefix \o s

\* endpoint.replace(/^https:\/\//, 'http://')
replaceHttpsPrefix(s) ==
    IF startsWith(s, S_httpsPrefix)
    THEN S_httpPrefix \o SubSeq(s, Len(S_httpsPrefix) + 1, Len(s))
    ELSE s

\* line 253
httpUrlOf(s) ==
    IF isIP(s) THEN S_httpPrefix \o s
    ELSE IF startsWith(s, S_http) THEN replaceHttpsPrefix(s) ELSE S_httpPrefix \o s

\* lines 234-237 and 293-296
isOpaqueMessage(message) ==
    \/ messageIncludes(message, "Failed to fetch")
    \/ messageIncludes(message, "NetworkError")
    \/ messageIncludes(message, "blocked by CORS")
    \/ messageIncludes(message, "CORS")

\* <= in place of <.
WellBeforeInclusive(t, budget) == t * 10 <= budget * 8

\* httpsResponseTime < timeoutMs * 0.8, in exact arithmetic
WellBefore(t, budget) == t * 10 < budget * 8

\* lines 202-212
HttpsSuccess(url, rt) == SuccessResult(url, rt, "http-head-https")

\* lines 219-247 with the test of lines 233-246 ahead of the test of line 220.
HttpsCatchPolicyFirst(url, T, e, rt) ==
    IF e.isError /\ WellBefore(rt, T) /\ isOpaqueMessage(e.message)
    THEN SuccessResult(url, rt, "http-head-https")
    ELSE IF e.isError /\ e.name = "AbortError"
    THEN ErrorResult(url, rt, [text |-> "HTTPS timeout", ms |-> T], "http-head-https")
    ELSE None

\* lines 219-247: what the catch block of the HTTPS attempt returns before it
\* considers the fallback; None when it returns nothing there.
HttpsCatch(url, T, e, rt) ==
    IF e.isError /\ e.name = "AbortError"
    THEN ErrorResult(url, rt, [text |-> "HTTPS timeout", ms |-> T], "http-head-https")
    ELSE IF e.isError /\ WellBefore(rt, T) /\ isOpaqueMessage(e.message)
    THEN SuccessResult(url, rt, "http-head-https")
    ELSE None

\* line 251 handing the whole budget to the fallback.
remainingOfWholeBudget(T, t) == T

\* line 251
remainingOf(T, t) == IF T - t > 0 THEN T - t ELSE 0

\* >= in place of >.
fallbackAllowedInclusive(rem) == rem >= 1000

\* line 252
fallbackAllowed(rem) == rem > 1000

\* lines 320-327
NoFallback(url, e, rt) ==
    ErrorResult(url, rt, messageOr(e, "Connection failed"), "http-head-https")

\* lines 266-274 returning what lines 308-315 return.
HttpResponseIgnored(url, el, httpRespTime) ==
    ErrorResult(url, el + httpRespTime, Msg("Connection failed (HTTP fallback)"),
                "http-head-http")

\* lines 266-274 with the method tag of lines 202-212.
HttpSuccessHttpsTag(url, el, httpRespTime) ==
    SuccessResult(url, el + httpRespTime, "http-head-https")

\* lines 266-274
HttpSuccess(url, el, httpRespTime) ==
    SuccessResult(url, el + httpRespTime, "http-head-http")

\* lines 275-316 reporting the time of the HTTP attempt alone.
HttpCatchHttpTimeOnly(url, el, rem, e, httpRespTime) ==
    IF e.isError /\ e.name = "AbortError"
    THEN ErrorResult(url, httpRespTime,
           [text |-> "HTTP fallback timeout", secs |-> (rem + 500) \div 1000],
           "http-head-http")
    ELSE IF e.isError /\ WellBefore(httpRespTime, rem) /\ isOpaqueMessage(e.message)
    THEN SuccessResult(url, httpRespTime, "http-head-http")
    ELSE ErrorResult(url, httpRespTime,
           messageOr(e, "Connection failed (HTTP fallback)"), "http-head-http")

\* lines 275-316: what the catch block of the HTTP attempt returns
HttpCatch(url, el, rem, e, httpRespTime) ==
    IF e.isError /\ e.name = "AbortError"
    THEN ErrorResult(url, el + httpRespTime,
           [text |-> "HTTP fallback timeout", secs |-> (rem + 500) \div 1000],
           "http-head-http")
    ELSE IF e.isError /\ WellBefore(httpRespTime, rem) /\ isOpaqueMessage(e.message)
    THEN SuccessResult(url, el + httpRespTime, "http-head-http")
    ELSE ErrorResult(url, el + httpRespTime,
           messageOr(e, "Connection failed (HTTP fallback)"), "http-head-http")

\* The outer try without its catch: the exception leaves the function.
OuterCatchRethrows(url, e, rt) == Raise(e)

\* lines 330-340: the outer catch
OuterCatch(url, e, rt) ==
    ErrorResult(url, rt, messageOr(e, "Unknown error"), "http-head-https")

\* The whole call as a function of what the environment does to it: env.setup
\* (None, or what line 189 throws), env.stun (how detectProxy ends), env.https and
\* env.http (how each fetch ends, and when).
testEndpointConnectivity(url, T, env) ==
    IF usesStun(url)
    THEN IF env.stun.kind = "ok"
         THEN StunResult(url, env.stun.webrtc, env.stun.at)
         ELSE StunCatch(url, env.stun.error, env.stun.at)
    ELSE IF env.setup # None
    THEN OuterCatch(url, env.setup, 0)
    ELSE IF env.https.out.kind = "ok"
    THEN HttpsSuccess(url, env.https.at)
    ELSE LET e == env.https.out.error
             t == env.https.at
             early == HttpsCatch(url, T, e, t)
             rem == remainingOf(T, t)
         IN  IF early # None THEN early
             ELSE IF ~fallbackAllowed(rem) THEN NoFallback(url, e, t)
             ELSE IF env.http.out.kind = "ok"
             THEN HttpSuccess(url, t, env.http.at)
             ELSE HttpCatch(url, t, rem, env.http.out.error, env.http.at)

(***************************************************************************)
(* One call of testEndpointConnectivity, step by step. A step runs from    *)
(* one await to the next.                                                  *)
(***************************************************************************)
BatchIdle ==
    /\ endpoints = <<>>
    /\ net = <<>>
    /\ bpc = "idle"
    /\ i = 0
    /\ cursor = 0
    /\ task = <<>>
    /\ batchResults = <<>>
    /\ results = <<>>
    /\ lastProgress = None
    /\ emitted = EmptyBag
    /\ returned = <<>>

CollectIdle ==
    /\ lpc = "idle"
    /\ pcState = "none"
    /\ offer = "none"
    /\ iceListener = FALSE
    /\ iceTimer = "none"
    /\ iceIps = <<>>
    /\ spc = "idle"
    /\ sslDetected = FALSE
    /\ sslDetails = <<>>
    /\ sslReturned = None
    /\ ws = "none"
    /\ wsTimer = "none"
    /\ outcomes = None

ClassifyIdle ==
    /\ cpc = "idle"
    /\ octets = <<>>
    /\ address = <<>>
    /\ ipPrivate = FALSE

DetectIdle ==
    /\ dpc = "idle"
    /\ externalIP = NullIP
    /\ localIPs = <<>>
    /\ headerCheck = None
    /\ latency = 0
    /\ sslInspection = None
    /\ detectionMethods = <<>>
    /\ confidence = "low"
    /\ verdict = None
    /\ firstVerdict = None

ProbeIdle ==
    /\ endpoint = <<>>
    /\ timeoutMs = DefaultTimeoutMs
    /\ ppc = "idle"
    /\ elapsed = 0
    /\ remaining = 0
    /\ requests = <<>>
    /\ timers = {}
    /\ awaited = <<>>
    /\ settled = "pending"
    /\ result = None

Init ==
    /\ endpoint \in Targets
    /\ timeoutMs \in Timeouts
    /\ ppc = "init"
    /\ elapsed = 0
    /\ remaining = 0
    /\ requests = <<>>
    /\ timers = {}
    /\ awaited = <<>>
    /\ settled = "pending"
    /\ result = None
    /\ BatchIdle
    /\ DetectIdle
    /\ ClassifyIdle
    /\ CollectIdle

\* The async function ends: `return r` resolves its promise with r, and an
\* exception that no catch block of the function took, Raise(e), rejects it.
Return(r) ==
    /\ ppc' = "done"
    /\ IF "raise" \in DOMAIN r
       THEN settled' = "rejected" /\ result' = None
       ELSE settled' = "resolved" /\ result' = r

\* lines 126-130: the target goes to the STUN probe; await detectProxy()
StartStun ==
    /\ UNCHANGED notProbe
    /\ ppc = "init"
    /\ usesStun(endpoint)
    /\ ppc' = "stun"
    /\ UNCHANGED <<endpoint, timeoutMs, elapsed, remaining, requests, timers,
                   awaited, settled, result>>

\* lines 131-163: detectProxy resolved
StunSettle ==
    /\ UNCHANGED notProbe
    /\ ppc = "stun"
    /\ \E webrtc \in WebrtcOutcomes, rt \in StunDurations :
         /\ Return(StunResult(endpoint, webrtc, rt))
         /\ awaited' = Append(awaited, [op |-> "detectProxy",
                out |-> [kind |-> "ok", webrtc |-> webrtc], at |-> rt])
    /\ UNCHANGED <<endpoint, timeoutMs, elapsed, remaining, requests, timers>>

\* lines 164-174: detectProxy rejected
StunReject ==
    /\ UNCHANGED notProbe
    /\ ppc = "stun"
    /\ \E e \in DelegateErrors, rt \in StunDurations :
         /\ Return(StunCatch(endpoint, e, rt))
         /\ awaited' = Append(awaited, [op |-> "detectProxy", out |-> Thrown(e), at |-> rt])
    /\ UNCHANGED <<endpoint, timeoutMs, elapsed, remaining, requests, timers>>

\* lines 178-200: the abort timer is armed and the HTTPS request is issued
StartHttps ==
    /\ UNCHANGED notProbe
    /\ ppc = "init"
    /\ ~usesStun(endpoint)
    /\ timers' = timers \cup {"https"}
    /\ requests' = Append(requests, testUrlOf(endpoint))
    /\ ppc' = "https"
    /\ UNCHANGED <<endpoint, timeoutMs, elapsed, remaining, awaited, settled, result>>

\* lines 189-190 throw (no AbortController in the runtime): the outer catch
StartThrows ==
    /\ UNCHANGED notProbe
    /\ ppc = "init"
    /\ ~usesStun(endpoint)
    /\ \E e \in SetupErrors : Return(OuterCatch(endpoint, e, 0))
    /\ UNCHANGED <<endpoint, timeoutMs, elapsed, remaining, requests, timers, awaited>>

\* lines 202-328: the HTTPS fetch ended as `out` at t ms; either a result is
\* returned or the HTTP request is issued with its own abort timer.
HttpsEnded(out, t) ==
    /\ awaited' = Append(awaited, [op |-> "fetch", url |-> requests[Len(requests)], out |-> out, at |-> t])
    /\ IF out.kind = "ok"
       THEN /\ Return(HttpsSuccess(endpoint, t))
            /\ timers' = timers \ {"https"}
            /\ UNCHANGED <<elapsed, remaining, requests>>
       ELSE LET early == HttpsCatch(endpoint, timeoutMs, out.error, t)
                rem == remainingOf(timeoutMs, t)
            IN  IF early # None
                THEN /\ Return(early)
                     /\ timers' = timers \ {"https"}
                     /\ UNCHANGED <<elapsed, remaining, requests>>
                ELSE IF fallbackAllowed(rem)
                THEN /\ elapsed' = t
                     /\ remaining' = rem
                     /\ timers' = (timers \ {"https"}) \cup {"http"}
                     /\ requests' = Append(requests, httpUrlOf(endpoint))
                     /\ ppc' = "http"
                     /\ UNCHANGED <<settled, result>>
                ELSE /\ Return(NoFallback(endpoint, out.error, t))
                     /\ timers' = timers \ {"https"}
                     /\ elapsed' = t
                     /\ remaining' = rem
                     /\ UNCHANGED requests
    /\ UNCHANGED <<endpoint, timeoutMs>>

\* the HTTPS fetch resolves or rejects on its own, no later than the timer
HttpsSettle ==
    /\ UNCHANGED notProbe
    /\ ppc = "https"
    /\ \E out \in FetchOutcomes, t \in ElapsedSamples(timeoutMs) : HttpsEnded(out, t)

\* line 190: the timer fires at timeoutMs, controller.abort() rejects the fetch
HttpsAbort ==
    /\ UNCHANGED notProbe
    /\ ppc = "https"
    /\ "https" \in timers
    /\ \E e \in AbortErrors : HttpsEnded(Thrown(e), timeoutMs)

\* lines 266-316: the HTTP fetch ended as `out`, t ms after it was issued
HttpEnded(out, t) ==
    /\ awaited' = Append(awaited, [op |-> "fetch", url |-> requests[Len(requests)], out |-> out, at |-> t])
    /\ timers' = timers \ {"http"}
    /\ IF out.kind = "ok"
       THEN Return(HttpSuccess(endpoint, elapsed, t))
       ELSE Return(HttpCatch(endpoint, elapsed, remaining, out.error, t))
    /\ UNCHANGED <<endpoint, timeoutMs, elapsed, remaining, requests>>

HttpSettle ==
    /\ UNCHANGED notProbe
    /\ ppc = "http"
    /\ \E out \in FetchOutcomes, t \in ElapsedSamples(remaining) : HttpEnded(out, t)

\* line 255 aborting the controller of the HTTPS attempt: the timer fires and
\* the HTTP request goes on.
HttpAbortWrongController ==
    /\ UNCHANGED notProbe
    /\ ppc = "http"
    /\ "http" \in timers
    /\ timers' = timers \ {"http"}
    /\ UNCHANGED <<endpoint, timeoutMs, ppc, elapsed, remaining, requests, awaited,
                   settled, result>>

\* line 255: the timer fires at `remaining`, httpController.abort()
HttpAbort ==
    /\ UNCHANGED notProbe
    /\ ppc = "http"
    /\ "http" \in timers
    /\ \E e \in AbortErrors : HttpEnded(Thrown(e), remaining)

Next ==
    \/ StartStun
    \/ StunSettle
    \/ StunReject
    \/ StartHttps
    \/ StartThrows
    \/ HttpsSettle
    \/ HttpsAbort
    \/ HttpSettle
    \/ HttpAbort

Spec == Init /\ [][Next]_vars

(***************************************************************************)
(* testAllEndpoints (lines 343-380), step by step. The callback of          *)
(* batch.map runs synchronously up to its await, one task after the other,  *)
(* so no probe completes before the whole chunk is launched; the tasks of   *)
(* a chunk then complete in any order.                                      *)
(***************************************************************************)
\* line 351
batchSize == 10

\* Longest input list, and number of rotations of the pool the lists are cut from.
MaxN == 11
MaxRot == 1

BatchPool == <<T_Fqdn, T_NtpToken, T_Ip>>

\* The list of n targets that starts at position r of the pool.
EndpointList(n, r) ==
    [k \in 1..n |-> BatchPool[((k - 1 + r) % Len(BatchPool)) + 1]]

\* What the environment does to every probe of one target during a run.
EnvUp ==
    [setup |-> None,
     stun |-> [kind |-> "ok", at |-> 50,
               webrtc |-> [supported |-> TRUE, stunSucceeded |-> TRUE, relayOnly |-> FALSE]],
     https |-> [out |-> FetchOk, at |-> 200],
     http |-> [out |-> FetchOk, at |-> 200]]
EnvDown ==
    [setup |-> None,
     stun |-> [kind |-> "throw", at |-> 3000,
               error |-> [isError |-> TRUE, name |-> "Error", message |-> "ICE gathering failed"]],
     https |-> [out |-> Thrown([isError |-> TRUE, name |-> "AbortError",
                                message |-> "signal is aborted without reason"]),
                at |-> DefaultTimeoutMs],
     http |-> [out |-> FetchOk, at |-> 200]]
EnvFallback ==
    [setup |-> None,
     stun |-> [kind |-> "ok", at |-> 3000,
               webrtc |-> [supported |-> TRUE, stunSucceeded |-> FALSE, relayOnly |-> TRUE]],
     https |-> [out |-> Thrown([isError |-> TRUE, name |-> "TypeError",
                                message |-> "Load failed"]),
                at |-> 200],
     http |-> [out |-> FetchOk, at |-> 200]]

NetChoices ==
    { [t \in Range(BatchPool) |-> EnvUp],
      [t \in Range(BatchPool) |-> EnvDown],
      [t \in Range(BatchPool) |-> IF t = T_Fqdn THEN EnvDown ELSE EnvUp],
      [t \in Range(BatchPool) |-> IF t = T_Ip THEN EnvUp ELSE EnvFallback] }

BatchEnvs == {EnvUp, EnvDown, EnvFallback}

\* line 361: this.testEndpointConnectivity(endpoint, timeoutMs) for the targets
\* and environments of a run, tabulated.
ProbeTable ==
    [t \in Range(BatchPool), e \in BatchEnvs |->
        testEndpointConnectivity(t, DefaultTimeoutMs, e)]

N == Len(endpoints)

\* line 354 with a slice one target longer.
BatchOneMore(from) == {k \in 1..N : from < k /\ k <= from + batchSize + 1}

\* line 354: the input indices (1-based) of endpoints.slice(i, i + batchSize)
Batch(from) == {k \in 1..N : from < k /\ k <= from + batchSize}

\* line 359
PreNotification(g) ==
    [completed |-> g - 1, total |-> N, current |-> endpoints[g]]

\* line 364 with globalIndex in place of globalIndex + 1.
PostNotificationSameIndex(g) ==
    [completed |-> g - 1, total |-> N, current |-> endpoints[g]]

\* line 364
PostNotification(g) ==
    [completed |-> g, total |-> N, current |-> endpoints[g]]

\* line 378 with the loop variable in place of endpoints.length.
FinalNotificationLoopVar ==
    [completed |-> i, total |-> N, current |-> <<>>]

\* line 378
FinalNotification ==
    [completed |-> N, total |-> N, current |-> <<>>]

\* onProgress?.(n)
Emit(n) ==
    /\ lastProgress' = n
    /\ emitted' = emitted (+) SetToBag({n})

\* The task rejects where the probe reported an error.
TaskValueThrowsOnError(r) ==
    IF "raise" \notin DOMAIN r /\ r.status = "error" THEN Raise(r.error) ELSE r

\* lines 361-366: what the task's promise settles with, given the probe's
\* outcome r (the task has no catch: a rejection of the probe is its own)
TaskValue(r) == r

\* Promise.all without the wait: it settles as soon as one task is done.
ChunkSettledByOne(from) == \E k \in Batch(from) : task[k] = "done"

\* line 369: Promise.all(batchPromises) resolves when every task has
ChunkSettled(from) == \A k \in Batch(from) : task[k] = "done"

\* The chunk's results pushed last task first.
PushedReversed(from) ==
    LET n == Cardinality(Batch(from))
    IN  results \o [k \in 1..n |-> batchResults[from + n + 1 - k]]

\* lines 369-370: results.push(...batchResults), in the order of the tasks
Pushed(from) ==
    results \o [k \in 1..Cardinality(Batch(from)) |-> batchResults[from + k]]

\* line 373
MoreChunks(from) == from + batchSize < N

InitBatch ==
    /\ ProbeIdle
    /\ DetectIdle
    /\ ClassifyIdle
    /\ CollectIdle
    /\ \E n \in 0..MaxN, r \in 0..MaxRot : endpoints = EndpointList(n, r)
    /\ net \in NetChoices
    /\ bpc = "loop"
    /\ i = 0
    /\ cursor = 0
    /\ task = [k \in 1..N |-> "idle"]
    /\ batchResults = [k \in 1..N |-> None]
    /\ results = <<>>
    /\ lastProgress = None
    /\ emitted = EmptyBag
    /\ returned = <<>>

\* lines 353-354: the loop condition holds, the next chunk is sliced
LoopEnter ==
    /\ UNCHANGED notBatch
    /\ bpc = "loop"
    /\ i < N
    /\ bpc' = "map"
    /\ cursor' = 0
    /\ UNCHANGED <<endpoints, net, i, task, batchResults, results, lastProgress,
                   emitted, returned>>

\* lines 358-359: the callback of batch.map starts for the next target
Notify ==
    /\ UNCHANGED notBatch
    /\ bpc = "map"
    /\ i + cursor + 1 \in Batch(i)
    /\ task[i + cursor + 1] = "idle"
    /\ Emit(PreNotification(i + cursor + 1))
    /\ task' = [task EXCEPT ![i + cursor + 1] = "notified"]
    /\ UNCHANGED <<endpoints, net, bpc, i, cursor, batchResults, results, returned>>

\* line 361: the probe is called and the callback suspends at its await; after
\* the last target of the chunk, line 369 awaits Promise.all
StartProbe ==
    /\ UNCHANGED notBatch
    /\ bpc = "map"
    /\ i + cursor + 1 \in Batch(i)
    /\ task[i + cursor + 1] = "notified"
    /\ task' = [task EXCEPT ![i + cursor + 1] = "running"]
    /\ cursor' = cursor + 1
    /\ bpc' = IF i + cursor + 2 \in Batch(i) THEN "map" ELSE "await"
    /\ UNCHANGED <<endpoints, net, i, batchResults, results, lastProgress, emitted,
                   returned>>

\* lines 361-366: the probe of task k is over and the task resumes; a task
\* that rejects makes Promise.all, and with it testAllEndpoints, reject
Complete(k) ==
    /\ UNCHANGED notBatch
    /\ bpc = "await"
    /\ task[k] = "running"
    /\ LET v == TaskValue(ProbeTable[endpoints[k], net[endpoints[k]]])
       IN  IF "raise" \in DOMAIN v
           THEN /\ bpc' = "rejected"
                /\ returned' = v
                /\ UNCHANGED <<task, batchResults, lastProgress, emitted>>
           ELSE /\ Emit(PostNotification(k))
                /\ task' = [task EXCEPT ![k] = "done"]
                /\ batchResults' = [batchResults EXCEPT ![k] = v]
                /\ UNCHANGED <<bpc, returned>>
    /\ UNCHANGED <<endpoints, net, i, cursor, results>>

\* lines 369-375, last chunk: the results are pushed and the loop goes on
ChunkDone ==
    /\ UNCHANGED notBatch
    /\ bpc = "await"
    /\ ChunkSettled(i)
    /\ results' = Pushed(i)
    /\ IF MoreChunks(i)
       THEN bpc' = "pause" /\ i' = i
       ELSE bpc' = "loop" /\ i' = i + batchSize
    /\ UNCHANGED <<endpoints, net, cursor, task, batchResults, lastProgress, emitted,
                   returned>>

\* line 374: the 50 ms timer fires
PauseOver ==
    /\ UNCHANGED notBatch
    /\ bpc = "pause"
    /\ bpc' = "loop"
    /\ i' = i + batchSize
    /\ UNCHANGED <<endpoints, net, cursor, task, batchResults, results, lastProgress,
                   emitted, returned>>

\* lines 378-379: the loop is over, the final notification, return results
LoopExit ==
    /\ UNCHANGED notBatch
    /\ bpc = "loop"
    /\ ~(i < N)
    /\ Emit(FinalNotification)
    /\ returned' = results
    /\ bpc' = "done"
    /\ UNCHANGED <<endpoints, net, i, cursor, task, batchResults, results>>

NextBatch ==
    \/ LoopEnter
    \/ Notify
    \/ StartProbe
    \/ \E k \in 1..N : Complete(k)
    \/ ChunkDone
    \/ PauseOver
    \/ LoopExit

SpecBatch == InitBatch /\ [][NextBatch]_vars

(***************************************************************************)
(* ProxyDetectionService.detectProxy (src/unnamed/part_001, lines 216-273): *)
(* the five collectors are awaited together and their values folded into   *)
(* the verdict. The fold is one continuation of the function; its           *)
(* statements are taken one at a time so that the successive values of      *)
(* confidence and detectionMethods are states.                             *)
(***************************************************************************)
\* ip.split('.')
DotCount(s) == Cardinality({k \in DOMAIN s : s[k] = "."})
NthDot(s, n) ==
    CHOOSE k \in DOMAIN s :
        s[k] = "." /\ Cardinality({j \in 1..k : s[j] = "."}) = n
split(s) ==
    [n \in 1..(DotCount(s) + 1) |->
        SubSeq(s, (IF n = 1 THEN 1 ELSE NthDot(s, n - 1) + 1),
                  (IF n = DotCount(s) + 1 THEN Len(s) ELSE NthDot(s, n) - 1))]

\* Number(part) for the parts of a dotted string: a run of digits is its decimal
\* value, the empty string is 0, anything else is NaN; every comparison of
\* lines 281-284 with NaN is false, as it is with -1.
NaN == 0 - 1
DigitSeq == <<"0","1","2","3","4","5","6","7","8","9">>
DigitValue(c) == (CHOOSE k \in 1..10 : DigitSeq[k] = c) - 1
Number(part) ==
    IF \E k \in DOMAIN part : ~IsDigit(part[k]) THEN NaN
    ELSE LET val[k \in 0..Len(part)] ==
                 IF k = 0 THEN 0 ELSE val[k - 1] * 10 + DigitValue(part[k])
         IN  val[Len(part)]

\* lines 275-286 with <= 32 in place of <= 31.
isPrivateIPUpTo32(ip) ==
    LET parts == [k \in DOMAIN split(ip) |-> Number(split(ip)[k])]
    IN  IF Len(parts) # 4 THEN FALSE
        ELSE \/ parts[1] = 10
             \/ (parts[1] = 172 /\ parts[2] >= 16 /\ parts[2] <= 32)
             \/ (parts[1] = 192 /\ parts[2] = 168)
             \/ parts[1] = 127

\* lines 275-286
isPrivateIP(ip) ==
    LET parts == [k \in DOMAIN split(ip) |-> Number(split(ip)[k])]
    IN  IF Len(parts) # 4 THEN FALSE
        ELSE \/ parts[1] = 10
             \/ (parts[1] = 172 /\ parts[2] >= 16 /\ parts[2] <= 31)
             \/ (parts[1] = 192 /\ parts[2] = 168)
             \/ parts[1] = 127

\* Addresses the collectors can report.
A_Private10 ==
    <<"1","0",".","0",".","0",".","5">>
A_Private172 ==
    <<"1","7","2",".","1","6",".","0",".","1">>
A_Private192 ==
    <<"1","9","2",".","1","6","8",".","1",".","2">>
A_Loopback ==
    <<"1","2","7",".","0",".","0",".","1">>
A_Public172 ==
    <<"1","7","2",".","3","2",".","0",".","1">>
A_Public1 ==
    <<"2","0","3",".","0",".","1","1","3",".","5">>
A_Public2 ==
    <<"1","9","8",".","5","1",".","1","0","0",".","7">>

\* What getExternalIP resolves with: null or the address ipify saw.
ExternalChoices == {NullIP, A_Public1, A_Public2}

\* What getLocalIPs resolves with: the addresses of the ICE candidates, in the
\* order they came, none twice (line 53).
LocalChoices ==
    { <<>>,
      <<A_Private192>>,
      <<A_Private10, A_Private172>>,
      <<A_Loopback>>,
      <<A_Public172>>,
      <<A_Public1>>,
      <<A_Public2>>,
      <<A_Private192, A_Public1>>,
      <<A_Private192, A_Public2>>,
      <<A_Public1, A_Public2>>,
      <<A_Public2, A_Public1>> }

\* What checkProxyHeaders resolves with (lines 92-95).
HeaderChoices ==
    { [detected |-> FALSE, headers |-> {}],
      [detected |-> TRUE, headers |-> {"Via"}],
      [detected |-> TRUE, headers |-> {"Via", "X-Forwarded-For"}] }

\* What measureLatency resolves with, in ms.
LatencyChoices == {200, 1000, 1001}

\* What checkSSLInspection resolves with (line 213).
SslChoices ==
    { [detected |-> FALSE, details |-> <<>>],
      [detected |-> TRUE, details |-> <<"SSL inspection headers detected">>] }

\* line 242
isLocalIPPublic(ips) == \E k \in DOMAIN ips : ~isPrivateIP(ips[k])

\* lines 241-243: the condition of the IP mismatch rule
ipMismatch(ext, ips) ==
    /\ ext # NullIP
    /\ Len(ips) > 0
    /\ isLocalIPPublic(ips)
    /\ ext \notin Range(ips)

\* line 255 with <= 1 in place of === 0.
webrtcBlockedAtMostOne(ips) == Len(ips) <= 1

\* line 255: localIPs.length === 0
webrtcBlocked(ips) == Len(ips) = 0

\* 'medium' where lines 231 and 237 say 'high'.
strongConfidenceMedium == "medium"

\* lines 231 and 237: confidence = 'high'
strongConfidence == "high"

\* line 245 without its test.
setMedium(c) == "medium"

\* line 245: if (confidence === 'low') confidence = 'medium'
raiseToMedium(c) == IF c = "low" THEN "medium" ELSE c

\* lines 259-272 with isProxyDetected taken from the confidence.
VerdictDetectedByConfidence(methods, conf, ext, ips, hc, lat, ssl) ==
    [isProxyDetected |-> conf # "low",
     confidence |-> conf,
     detectionMethods |-> methods,
     sslInspection |-> ssl,
     details |-> [externalIP |-> ext, localIPs |-> ips,
                  headers |-> hc.headers, timing |-> lat]]

\* lines 259-272: the value detectProxy returns
Verdict(methods, conf, ext, ips, hc, lat, ssl) ==
    [isProxyDetected |-> Len(methods) > 0,
     confidence |-> conf,
     detectionMethods |-> methods,
     sslInspection |-> ssl,
     details |-> [externalIP |-> ext, localIPs |-> ips,
                  headers |-> hc.headers, timing |-> lat]]

InitDetect ==
    /\ ProbeIdle
    /\ BatchIdle
    /\ ClassifyIdle
    /\ CollectIdle
    /\ dpc = "init"
    /\ externalIP = NullIP
    /\ localIPs = <<>>
    /\ headerCheck = None
    /\ latency = 0
    /\ sslInspection = None
    /\ detectionMethods = <<>>
    /\ confidence = "low"
    /\ verdict = None
    /\ firstVerdict = None

\* lines 217-223: the five collectors are started and awaited together
DetectStart ==
    /\ UNCHANGED <<notDetect, firstVerdict>>
    /\ dpc = "init"
    /\ dpc' = "collecting"
    /\ UNCHANGED <<externalIP, localIPs, headerCheck, latency, sslInspection,
                   detectionMethods, confidence, verdict>>

\* lines 217-226: Promise.all resolved with the five values; the two locals of
\* the fold are initialised
CollectorsSettled ==
    /\ UNCHANGED <<notDetect, firstVerdict>>
    /\ dpc = "collecting"
    /\ externalIP' \in ExternalChoices
    /\ localIPs' \in LocalChoices
    /\ headerCheck' \in HeaderChoices
    /\ latency' \in LatencyChoices
    /\ sslInspection' \in SslChoices
    /\ detectionMethods' = <<>>
    /\ confidence' = "low"
    /\ dpc' = "headers"
    /\ UNCHANGED verdict

\* lines 228-232
FoldHeaders ==
    /\ UNCHANGED <<notDetect, firstVerdict>>
    /\ dpc = "headers"
    /\ IF headerCheck.detected
       THEN /\ detectionMethods' = Append(detectionMethods, "Proxy headers detected")
            /\ confidence' = strongConfidence
       ELSE UNCHANGED <<detectionMethods, confidence>>
    /\ dpc' = "ssl"
    /\ UNCHANGED <<externalIP, localIPs, headerCheck, latency, sslInspection, verdict>>

\* lines 234-238
FoldSsl ==
    /\ UNCHANGED <<notDetect, firstVerdict>>
    /\ dpc = "ssl"
    /\ IF sslInspection.detected
       THEN /\ detectionMethods' = Append(detectionMethods, "SSL inspection detected")
            /\ confidence' = strongConfidence
       ELSE UNCHANGED <<detectionMethods, confidence>>
    /\ dpc' = "mismatch"
    /\ UNCHANGED <<externalIP, localIPs, headerCheck, latency, sslInspection, verdict>>

\* lines 240-247
FoldIpMismatch ==
    /\ UNCHANGED <<notDetect, firstVerdict>>
    /\ dpc = "mismatch"
    /\ IF ipMismatch(externalIP, localIPs)
       THEN /\ detectionMethods' = Append(detectionMethods, "IP address mismatch")
            /\ confidence' = raiseToMedium(confidence)
       ELSE UNCHANGED <<detectionMethods, confidence>>
    /\ dpc' = "latency"
    /\ UNCHANGED <<externalIP, localIPs, headerCheck, latency, sslInspection, verdict>>

\* lines 249-252
FoldLatency ==
    /\ UNCHANGED <<notDetect, firstVerdict>>
    /\ dpc = "latency"
    /\ IF latency > 1000
       THEN detectionMethods' =
              Append(detectionMethods, "High network timing detected (>1000ms)")
       ELSE UNCHANGED detectionMethods
    /\ dpc' = "blocked"
    /\ UNCHANGED <<externalIP, localIPs, headerCheck, latency, sslInspection,
                   confidence, verdict>>

\* lines 254-257
FoldWebrtcBlocked ==
    /\ UNCHANGED <<notDetect, firstVerdict>>
    /\ dpc = "blocked"
    /\ IF webrtcBlocked(localIPs)
       THEN detectionMethods' =
              Append(detectionMethods, "WebRTC blocked (possible proxy)")
       ELSE UNCHANGED detectionMethods
    /\ dpc' = "return"
    /\ UNCHANGED <<externalIP, localIPs, headerCheck, latency, sslInspection,
                   confidence, verdict>>

\* lines 259-272
DetectReturn ==
    /\ UNCHANGED <<notDetect, firstVerdict>>
    /\ dpc = "return"
    /\ verdict' = Verdict(detectionMethods, confidence, externalIP, localIPs,
                          headerCheck, latency, sslInspection)
    /\ dpc' = "done"
    /\ UNCHANGED <<externalIP, localIPs, headerCheck, latency, sslInspection,
                   detectionMethods, confidence>>

NextDetect ==
    \/ DetectStart
    \/ CollectorsSettled
    \/ FoldHeaders
    \/ FoldSsl
    \/ FoldIpMismatch
    \/ FoldLatency
    \/ FoldWebrtcBlocked
    \/ DetectReturn

SpecDetect == InitDetect /\ [][NextDetect]_vars

(***************************************************************************)
(* One detectProxy call with its five collectors running (lines 18-223).   *)
(* getLocalIPs and checkSSLInspection go on receiving events after they    *)
(* have settled, so they are followed step by step; the other three        *)
(* collectors are one request each and are functions of how it ended.      *)
(***************************************************************************)
\* How the request of a one-request collector ends: a response whose body
\* parses, a rejected fetch (network error or AbortSignal.timeout), or a body
\* on which response.json() rejects.
ExternalOutcomes ==
    { [kind |-> "ok", ip |-> A_Public1],
      [kind |-> "rejected"],
      [kind |-> "malformed"] }
HeaderOutcomes ==
    { [kind |-> "ok", headers |-> {"Host"}],
      [kind |-> "ok", headers |-> {"Host", "Via"}],
      [kind |-> "ok", headers |-> {"Host", "x-forwarded-for"}],
      [kind |-> "rejected"],
      [kind |-> "malformed"] }
LatencyOutcomes ==
    { [kind |-> "ok", elapsed |-> 200],
      [kind |-> "rejected", elapsed |-> 5000] }

\* lines 18-28
getExternalIP(o) == IF o.kind = "ok" THEN o.ip ELSE NullIP

\* lines 77-81 and header.toLowerCase() for each of them
proxyHeaders ==
    { <<"Via", "via">>,
      <<"X-Forwarded-For", "x-forwarded-for">>,
      <<"X-Forwarded-Host", "x-forwarded-host">>,
      <<"X-Forwarded-Proto", "x-forwarded-proto">>,
      <<"X-Real-IP", "x-real-ip">>,
      <<"X-Proxy-Authorization", "x-proxy-authorization">>,
      <<"Proxy-Authorization", "proxy-authorization">>,
      <<"X-Forwarded-Server", "x-forwarded-server">>,
      <<"X-Cluster-Client-IP", "x-cluster-client-ip">> }

\* lines 68-97
checkProxyHeaders(o) ==
    IF o.kind = "ok"
    THEN LET detectedHeaders ==
                 { h[1] : h \in { g \in proxyHeaders :
                                    g[1] \in o.headers \/ g[2] \in o.headers } }
         IN [detected |-> detectedHeaders # {}, headers |-> detectedHeaders]
    ELSE [detected |-> FALSE, headers |-> {}]

\* lines 99-111: the time is returned however the request ended
measureLatency(o) == o.elapsed

\* What the executor of getLocalIPs meets (lines 31-64): no RTCPeerConnection
\* in the window, a constructor that throws, a createDataChannel that throws,
\* an offer that is never made (createOffer or setLocalDescription rejects),
\* or a negotiation that starts.
ExecutorOutcomes ==
    {"noRTCPeerConnection", "constructorThrows", "dataChannelThrows",
     "offerFails", "negotiating"}

\* The address a candidate string carries for the regular expression of
\* line 52: an IPv4 address, or none (an mDNS or IPv6 candidate).
CandidateChoices == {None, A_Private192, A_Public1}

\* The aggregator is between resuming from its await and returning: the fold
\* of lines 225-272 is synchronous, no event is dispatched inside it.
FoldRunning == dpc \in {"headers", "ssl", "mismatch", "latency", "blocked", "return"}

\* lines 217-223: the five collectors are called, each runs to its first
\* await; for getLocalIPs that is the whole executor (lines 31-64)
CollectStart ==
    /\ UNCHANGED notDetectNorCollect
    /\ dpc = "init"
    /\ dpc' = "collecting"
    /\ \E x \in ExecutorOutcomes :
          CASE x = "noRTCPeerConnection" ->
                 /\ lpc' = "resolved"
                 /\ UNCHANGED <<pcState, offer, iceListener, iceTimer>>
            [] x = "constructorThrows" ->
                 /\ lpc' = "rejected"
                 /\ UNCHANGED <<pcState, offer, iceListener, iceTimer>>
            [] x = "dataChannelThrows" ->
                 /\ lpc' = "rejected"
                 /\ pcState' = "open"
                 /\ UNCHANGED <<offer, iceListener, iceTimer>>
            [] x = "offerFails" ->
                 /\ lpc' = "pending"
                 /\ pcState' = "open"
                 /\ iceListener' = TRUE
                 /\ offer' = "failed"
                 /\ iceTimer' = "pending"
            [] x = "negotiating" ->
                 /\ lpc' = "pending"
                 /\ pcState' = "open"
                 /\ iceListener' = TRUE
                 /\ offer' = "ok"
                 /\ iceTimer' = "pending"
    /\ spc' = "sites"
    /\ UNCHANGED <<iceIps, sslDetected, sslDetails, sslReturned, ws, wsTimer, outcomes>>
    /\ UNCHANGED <<externalIP, localIPs, headerCheck, latency, sslInspection,
                   detectionMethods, confidence, verdict, firstVerdict>>

\* lines 44-56 with a candidate: its address is pushed unless already there
IceCandidate ==
    /\ UNCHANGED notDetectNorCollect
    /\ ~FoldRunning
    /\ pcState = "open"
    /\ offer = "ok"
    /\ iceListener
    /\ \E c \in CandidateChoices :
          iceIps' = IF c # None /\ c \notin Range(iceIps)
                    THEN Append(iceIps, c) ELSE iceIps
    /\ UNCHANGED <<lpc, pcState, offer, iceListener, iceTimer, spc, sslDetected,
                   sslDetails, sslReturned, ws, wsTimer, outcomes>>
    /\ UNCHANGED detectVars

\* lines 45-49: the end-of-candidates event closes pc and resolves
IceEnd ==
    /\ UNCHANGED notDetectNorCollect
    /\ ~FoldRunning
    /\ pcState = "open"
    /\ offer = "ok"
    /\ iceListener
    /\ pcState' = "closed"
    /\ lpc' = IF lpc = "pending" THEN "resolved" ELSE lpc
    /\ UNCHANGED <<offer, iceListener, iceTimer, iceIps, spc, sslDetected,
                   sslDetails, sslReturned, ws, wsTimer, outcomes>>
    /\ UNCHANGED detectVars

\* lines 61-64: the timer fires, whether or not the promise is still pending
IceTimeout ==
    /\ UNCHANGED notDetectNorCollect
    /\ ~FoldRunning
    /\ iceTimer = "pending"
    /\ iceTimer' = "fired"
    /\ pcState' = "closed"
    /\ lpc' = IF lpc = "pending" THEN "resolved" ELSE lpc
    /\ UNCHANGED <<offer, iceListener, iceIps, spc, sslDetected,
                   sslDetails, sslReturned, ws, wsTimer, outcomes>>
    /\ UNCHANGED detectVars

\* lines 125-213: the three site requests have settled, the WebSocket is
\* created when the page is served over https, and the collector returns
SslSitesSettled ==
    /\ UNCHANGED notDetectNorCollect
    /\ ~FoldRunning
    /\ spc = "sites"
    /\ \E suspicious \in BOOLEAN, socket \in {"none", "connecting"}, chrome \in BOOLEAN :
          /\ sslDetected' = suspicious
          /\ sslReturned' = [detected |-> suspicious]
          /\ sslDetails' =
                (IF suspicious THEN <<"SSL inspection headers found">> ELSE <<>>)
                \o (IF chrome THEN <<>>
                    ELSE <<"Certificate validation limited in this browser">>)
          /\ ws' = socket
          /\ wsTimer' = IF socket = "connecting" THEN "pending" ELSE "none"
    /\ spc' = "returned"
    /\ UNCHANGED <<lpc, pcState, offer, iceListener, iceTimer, iceIps, outcomes>>
    /\ UNCHANGED detectVars

\* lines 182-184
WsOpen ==
    /\ UNCHANGED notDetectNorCollect
    /\ ~FoldRunning
    /\ ws = "connecting"
    /\ ws' = "closed"
    /\ UNCHANGED <<lpc, pcState, offer, iceListener, iceTimer, iceIps, spc, sslDetected,
                   sslDetails, sslReturned, wsTimer, outcomes>>
    /\ UNCHANGED detectVars

\* lines 186-189: the handshake ends in an error; `details` is the array the
\* returned object and the verdict hold, `detected` is the local variable
WsError ==
    /\ UNCHANGED notDetectNorCollect
    /\ ~FoldRunning
    /\ ws = "connecting"
    /\ ws' = "error"
    /\ sslDetected' = TRUE
    /\ sslDetails' = Append(sslDetails, "WebSocket SSL connection blocked")
    /\ sslInspection' = IF sslInspection = None THEN None
                        ELSE [sslInspection EXCEPT !.details = sslDetails']
    /\ verdict' = IF verdict = None THEN None
                  ELSE [verdict EXCEPT !.sslInspection.details = sslDetails']
    /\ UNCHANGED <<lpc, pcState, offer, iceListener, iceTimer, iceIps, spc,
                   sslReturned, wsTimer, outcomes>>
    /\ UNCHANGED <<dpc, externalIP, localIPs, headerCheck, latency,
                   detectionMethods, confidence, firstVerdict>>

\* lines 192-196
WsCleanup ==
    /\ UNCHANGED notDetectNorCollect
    /\ ~FoldRunning
    /\ wsTimer = "pending"
    /\ wsTimer' = "fired"
    /\ ws' = IF ws = "connecting" THEN "closed" ELSE ws
    /\ UNCHANGED <<lpc, pcState, offer, iceListener, iceTimer, iceIps, spc, sslDetected,
                   sslDetails, sslReturned, outcomes>>
    /\ UNCHANGED detectVars

\* lines 217-226: the five promises are fulfilled, Promise.all resolves
AwaitAllResolved ==
    /\ UNCHANGED notDetectNorCollect
    /\ dpc = "collecting"
    /\ lpc = "resolved"
    /\ spc = "returned"
    /\ \E e \in ExternalOutcomes, h \in HeaderOutcomes, l \in LatencyOutcomes :
          /\ outcomes' = [ext |-> e, hdr |-> h, lat |-> l]
          /\ externalIP' = getExternalIP(e)
          /\ headerCheck' = checkProxyHeaders(h)
          /\ latency' = measureLatency(l)
    /\ localIPs' = iceIps
    /\ sslInspection' = [detected |-> sslReturned.detected, details |-> sslDetails]
    /\ detectionMethods' = <<>>
    /\ confidence' = "low"
    /\ dpc' = "headers"
    /\ UNCHANGED <<verdict, firstVerdict>>
    /\ UNCHANGED <<lpc, pcState, offer, iceListener, iceTimer, iceIps, spc, sslDetected,
                   sslDetails, sslReturned, ws, wsTimer>>

\* lines 217-223: one of the five promises is rejected; Promise.all rejects,
\* the await throws and nothing in detectProxy catches it
AwaitAllRejected ==
    /\ UNCHANGED notDetectNorCollect
    /\ dpc = "collecting"
    /\ lpc = "rejected"
    /\ dpc' = "rejected"
    /\ UNCHANGED <<externalIP, localIPs, headerCheck, latency, sslInspection,
                   detectionMethods, confidence, verdict, firstVerdict>>
    /\ UNCHANGED collectVars

NextCollect ==
    \/ CollectStart
    \/ IceCandidate
    \/ IceEnd
    \/ IceTimeout
    \/ SslSitesSettled
    \/ WsOpen
    \/ WsError
    \/ WsCleanup
    \/ AwaitAllResolved
    \/ AwaitAllRejected
    \/ FoldHeaders
    \/ FoldSsl
    \/ FoldIpMismatch
    \/ FoldLatency
    \/ FoldWebrtcBlocked
    \/ DetectReturn

SpecCollect == InitDetect /\ [][NextCollect]_vars

(***************************************************************************)
(* ProxyDetectionService.isPrivateIP (lines 275-286) applied to the        *)
(* dotted-quad strings of four numbers.                                    *)
(***************************************************************************)
\* The decimal numeral of n (0 <= n <= 999), as a template literal writes it.
Numeral(n) ==
    IF n < 10 THEN <<DigitSeq[n + 1]>>
    ELSE IF n < 100 THEN <<DigitSeq[(n \div 10) + 1], DigitSeq[(n % 10) + 1]>>
    ELSE <<DigitSeq[(n \div 100) + 1], DigitSeq[((n \div 10) % 10) + 1],
           DigitSeq[(n % 10) + 1]>>
DottedQuad(o) ==
    Numeral(o[1]) \o <<".">> \o Numeral(o[2]) \o <<".">> \o Numeral(o[3])
        \o <<".">> \o Numeral(o[4])

\* The arguments: every first and every second octet, with two tails.
Octets == 0..255
QuadTails == {<<0, 1>>, <<255, 255>>}

InitClassify ==
    /\ ProbeIdle
    /\ BatchIdle
    /\ DetectIdle
    /\ CollectIdle
    /\ cpc = "init"
    /\ \E a \in Octets, b \in Octets, t \in QuadTails :
          /\ octets = <<a, b, t[1], t[2]>>
          /\ address = DottedQuad(<<a, b, t[1], t[2]>>)
    /\ ipPrivate = FALSE

\* lines 275-286: the call returns
Classify ==
    /\ UNCHANGED notClassify
    /\ cpc = "init"
    /\ ipPrivate' = isPrivateIP(address)
    /\ cpc' = "done"
    /\ UNCHANGED <<octets, address>>

NextClassify ==
    \/ Classify

SpecClassify == InitClassify /\ [][NextClassify]_vars

\* lines 216-226, called once more in an unchanged environment: the collectors
\* resolve with the values they had, but for the latency, which is measured anew
DetectAgain ==
    /\ UNCHANGED notDetect
    /\ dpc = "done"
    /\ firstVerdict = None
    /\ firstVerdict' = verdict
    /\ latency' \in LatencyChoices
    /\ detectionMethods' = <<>>
    /\ confidence' = "low"
    /\ dpc' = "headers"
    /\ UNCHANGED <<externalIP, localIPs, headerCheck, sslInspection, verdict>>

NextRerun ==
    \/ DetectStart
    \/ CollectorsSettled
    \/ FoldHeaders
    \/ FoldSsl
    \/ FoldIpMismatch
    \/ FoldLatency
    \/ FoldWebrtcBlocked
    \/ DetectReturn
    \/ DetectAgain

SpecRerun == InitDetect /\ [][NextRerun]_vars

(***************************************************************************)
(* Progress. One of the three calls is made: a probe, a batch run, or      *)
(* detectProxy with its collectors (the delegate of the STUN path). The    *)
(* event loop runs every continuation that is ready, and every timer that  *)
(* is armed fires: the abort timers of lines 190 and 255, the 3000 ms      *)
(* timer of getLocalIPs, the AbortSignal.timeout(5000) of every request of *)
(* the collectors, the 50 ms pause of line 374. No request is assumed to   *)
(* be answered.                                                            *)
(***************************************************************************)
\* A batch run in which no request of any probe is answered: every probe ends
\* by a timer. Whether the run ends does not depend on what the probes report.
InitBatchUnanswered ==
    /\ InitBatch
    /\ net = [t \in Range(BatchPool) |-> EnvDown]
    /\ \E n \in 0..MaxN : endpoints = EndpointList(n, 0)

InitLive ==
    \/ Init
    \/ InitBatchUnanswered
    \/ InitDetect

\* lines 361-366 for some task of the chunk
CompleteSome == \E k \in 1..N : Complete(k)

NextLive ==
    \/ StartStun
    \/ StunSettle
    \/ StunReject
    \/ StartHttps
    \/ StartThrows
    \/ HttpsSettle
    \/ HttpsAbort
    \/ HttpSettle
    \/ HttpAbort
    \/ LoopEnter
    \/ Notify
    \/ StartProbe
    \/ CompleteSome
    \/ ChunkDone
    \/ PauseOver
    \/ LoopExit
    \/ CollectStart
    \/ IceCandidate
    \/ IceEnd
    \/ IceTimeout
    \/ SslSitesSettled
    \/ WsOpen
    \/ WsError
    \/ WsCleanup
    \/ AwaitAllResolved
    \/ AwaitAllRejected
    \/ FoldHeaders
    \/ FoldSsl
    \/ FoldIpMismatch
    \/ FoldLatency
    \/ FoldWebrtcBlocked
    \/ DetectReturn

\* The position of every call and the state of the timers and tasks: a step of
\* the event loop changes one of them.
progress == <<ppc, bpc, dpc, lpc, spc, iceTimer, task>>

\* The probe: its two abort timers fire, and the delegate of the STUN path
\* settles (it is bounded by the timers below). The call itself runs up to
\* its first await in the caller's turn.
ProbeFairness ==
    /\ WF_progress(StunSettle \/ StunReject)
    /\ WF_progress(HttpsAbort)
    /\ WF_progress(HttpAbort)

\* The batch: its continuations run, every probe it started resolves, and the
\* 50 ms timer fires.
BatchFairness ==
    /\ WF_progress(LoopEnter)
    /\ WF_progress(Notify)
    /\ WF_progress(StartProbe)
    /\ WF_progress(CompleteSome)
    /\ WF_progress(ChunkDone)
    /\ WF_progress(PauseOver)
    /\ WF_progress(LoopExit)

\* detectProxy: the 3000 ms timer fires, the requests of the other collectors
\* end no later than their AbortSignal.timeout(5000), the continuations run.
CollectFairness ==
    /\ WF_progress(IceTimeout)
    /\ WF_progress(SslSitesSettled)
    /\ WF_progress(AwaitAllResolved)
    /\ WF_progress(AwaitAllRejected)
    /\ WF_progress(FoldHeaders)
    /\ WF_progress(FoldSsl)
    /\ WF_progress(FoldIpMismatch)
    /\ WF_progress(FoldLatency)
    /\ WF_progress(FoldWebrtcBlocked)
    /\ WF_progress(DetectReturn)

SpecLive ==
    /\ InitLive
    /\ [][NextLive]_vars
    /\ ProbeFairness
    /\ BatchFairness
    /\ CollectFairness

(***************************************************************************)
(* Properties of one probe, checked under Spec.                            *)
(***************************************************************************)
\* The operation the probe awaited last, and whether it ended in an exception.
LastAwaited == awaited[Len(awaited)]
LastThrew == Len(awaited) >= 1 /\ LastAwaited.out.kind = "throw"

\* spec 4.1, rule 3: the UDP-class targets
isUdpClass(s) ==
    \/ schemeIsUdpish(s)
    \/ hintUdpInString(trim(s))
    \/ isKnownUdpService(trim(s))

\* The targets of the model by class, tabulated.
UdpClassTargets == {t \in Targets : isUdpClass(t)}
OtherSchemeTargets == {t \in Targets : isNonHttpScheme(t)}

\* The messages of a generic network / opacity failure.
GenericMessages ==
    { "Failed to fetch",
      "NetworkError when attempting to fetch resource.",
      "Request blocked by CORS policy",
      "CORS preflight did not succeed" }

C2_UdpClassUsesStun ==
    (ppc = "done" /\ endpoint \in UdpClassTargets) =>
        /\ settled = "resolved"
        /\ result.method = "webrtc-stun"
        /\ requests = <<>>

\* C2 witness: a target that is UDP-class by its ":123" port alone, whose
\* delegate rejected.
C2_Witness ==
    /\ ppc = "done"
    /\ endpoint = T_Port123
    /\ endpoint \in UdpClassTargets \ OtherSchemeTargets
    /\ LastThrew
    /\ result.method = "webrtc-stun"

\* C3 as stated: a finished probe of a target that is not UDP-class never has
\* method webrtc-stun.
C3_Original ==
    (ppc = "done" /\ endpoint \notin UdpClassTargets) => result.method # "webrtc-stun"

\* C3, amended: a finished probe of a target that is not UDP-class and has no
\* leading "scheme:" prefix other than http/https never has method webrtc-stun.
C3_NonUdpHttpNeverStun ==
    (ppc = "done" /\ endpoint \notin UdpClassTargets \cup OtherSchemeTargets) =>
        /\ result.method \in {"http-head-https", "http-head-http"}
        /\ \A k \in DOMAIN awaited : awaited[k].op = "fetch"

\* C3 witness: a target with an explicit http scheme, not UDP-class, probed to
\* the end over HTTP.
C3_Witness ==
    /\ ppc = "done"
    /\ endpoint = T_Http
    /\ endpoint \notin UdpClassTargets \cup OtherSchemeTargets
    /\ Len(awaited) = 2
    /\ result.method = "http-head-http"

\* C10: when the HTTPS request failed with an Error that is no AbortError, has a
\* generic message and came before 0.8 * T, the probe is done with success,
\* method http-head-https, responseTime the HTTPS elapsed time, and one request;
\* when the HTTPS request failed at or after 0.8 * T, a success result is not
\* one of the HTTPS attempt.
C10_AmbiguityPolicyHttps ==
    (Len(awaited) >= 1 /\ awaited[1].op = "fetch" /\ awaited[1].out.kind = "throw") =>
        LET f == awaited[1]
            e == f.out.error
        IN  /\ ( /\ e.isError
                 /\ e.name # "AbortError"
                 /\ e.message \in GenericMessages
                 /\ f.at * 10 < timeoutMs * 8 ) =>
                    /\ ppc = "done"
                    /\ result = [url |-> endpoint, status |-> "success",
                                 responseTime |-> f.at, method |-> "http-head-https"]
                    /\ Len(requests) = 1
            /\ (f.at * 10 >= timeoutMs * 8 /\ ppc = "done" /\ result.status = "success") =>
                    /\ result.method = "http-head-http"
                    /\ Len(requests) = 2

\* C10 witness: the scenario of the specification, an opaque failure 200 ms
\* into a 10000 ms timeout.
C10_Witness ==
    /\ ppc = "done"
    /\ endpoint = T_Fqdn
    /\ timeoutMs = 10000
    /\ Len(awaited) = 1
    /\ awaited[1].out = Thrown([isError |-> TRUE, name |-> "TypeError",
                                message |-> "Failed to fetch"])
    /\ awaited[1].at = 200
    /\ result.status = "success"
    /\ result.method = "http-head-https"
    /\ result.responseTime = 200

\* The attempts of the HTTP path, as the probe awaited them.
HttpsFailed ==
    Len(awaited) >= 1 /\ awaited[1].op = "fetch" /\ awaited[1].out.kind = "throw"
HttpRan == Len(awaited) = 2
IsAbort(f) ==
    f.out.kind = "throw" /\ f.out.error.isError /\ f.out.error.name = "AbortError"
\* The ambiguity policy of spec 4.2 for a failed attempt f with time budget b.
InferredSuccess(f, b) ==
    /\ f.out.error.isError
    /\ f.out.error.name # "AbortError"
    /\ f.out.error.message \in GenericMessages
    /\ f.at * 10 < b * 8

C14_Original ==
    (ppc = "done" /\ endpoint \notin UdpClassTargets) =>
        /\ (result.method = "http-head-http") <=> (Len(requests) = 2)
        /\ (result.method = "http-head-https") <=> (Len(requests) = 1)

\* C14, amended: the result of a target that is not UDP-class has method
\* http-head-http iff the HTTP request was issued; when only the HTTPS request was
\* issued it has method http-head-https; and a result with method
\* http-head-https of a probe that issued no request is the error result of a
\* probe that failed before its first request.
C14_MethodTagOfLastAttempt ==
    (ppc = "done" /\ endpoint \notin UdpClassTargets) =>
        /\ (result.method = "http-head-http") <=> (Len(requests) = 2)
        /\ (Len(requests) = 1) => (result.method = "http-head-https")
        /\ (result.method = "http-head-https") => (Len(requests) \in {0, 1})
        /\ (result.method = "http-head-https" /\ Len(requests) = 0) =>
             /\ awaited = <<>>
             /\ result.status = "error"

\* C14 witness: the HTTP fallback got a response: success, tagged http-head-http.
C14_Witness ==
    /\ ppc = "done"
    /\ endpoint = T_Https
    /\ Len(requests) = 2
    /\ awaited[2].out.kind = "ok"
    /\ result.status = "success"
    /\ result.method = "http-head-http"

\* C15: the result of a probe whose HTTP fallback ran has as responseTime the
\* elapsed time of the HTTPS attempt plus that of the HTTP attempt, however the
\* fallback ended; the result of a probe that made the HTTPS attempt alone has
\* the elapsed time of the HTTPS attempt.
C15_ResponseTimeIsSum ==
    (ppc = "done" /\ Len(awaited) >= 1 /\ awaited[1].op = "fetch") =>
        /\ HttpRan => result.responseTime = awaited[1].at + awaited[2].at
        /\ ~HttpRan => result.responseTime = awaited[1].at

\* C15 witness: HTTPS failed at 8000 of 10000 ms, the fallback failed 200 ms
\* later with an opaque error (an inferred success): 8200 ms.
C15_Witness ==
    /\ ppc = "done"
    /\ timeoutMs = 10000
    /\ HttpRan
    /\ awaited[1].at = 8000
    /\ awaited[2].at = 200
    /\ awaited[2].out.kind = "throw"
    /\ result.status = "success"
    /\ result.responseTime = 8200

\* C16: when the delegate resolved, the result is: success when the STUN round
\* trip succeeded; error "WebRTC not supported ..." when WebRTC is unsupported;
\* error "Only TURN relay observed ..." when STUN failed and only relay was
\* seen; error "STUN failed ..." when STUN failed otherwise.
C16_StunOutcomeMapping ==
    (ppc = "done" /\ Len(awaited) = 1 /\ awaited[1].op = "detectProxy"
       /\ awaited[1].out.kind = "ok") =>
        LET w == awaited[1].out.webrtc
            unsupported == w = None \/ ~w.supported
        IN  /\ result.method = "webrtc-stun"
            /\ unsupported =>
                 /\ result.status = "error"
                 /\ result.error = Msg("WebRTC not supported in this browser (cannot run UDP/STUN test)")
            /\ (~unsupported /\ w.stunSucceeded) => result.status = "success"
            /\ (~unsupported /\ ~w.stunSucceeded /\ w.relayOnly) =>
                 /\ result.status = "error"
                 /\ result.error = Msg("Only TURN relay observed (UDP restricted or strict NAT)")
            /\ (~unsupported /\ ~w.stunSucceeded /\ ~w.relayOnly) =>
                 /\ result.status = "error"
                 /\ result.error = Msg("STUN failed (UDP likely blocked)")

\* C16 witness: the scenario of the specification, a target that is UDP-class
\* by its ntp token, whose STUN round trip succeeded.
C16_Witness ==
    /\ ppc = "done"
    /\ endpoint = T_NtpToken
    /\ awaited[1].op = "detectProxy"
    /\ awaited[1].out.kind = "ok"
    /\ awaited[1].out.webrtc # None
    /\ awaited[1].out.webrtc.stunSucceeded
    /\ result.status = "success"
    /\ result.method = "webrtc-stun"

\* C29 as stated: the first request of a probe goes to an https:// URL, the
\* fallback request to an http:// URL other than the first one, and a result
\* tagged http-head-https comes from a probe whose request went to https://.
C29_Original ==
    /\ (Len(requests) >= 1) => startsWith(requests[1], S_httpsPrefix)
    /\ (Len(requests) >= 2) =>
          /\ startsWith(requests[2], S_httpPrefix)
          /\ requests[2] # requests[1]
    /\ (ppc = "done" /\ settled = "resolved" /\ result.method = "http-head-https"
          /\ Len(requests) >= 1) =>
             startsWith(requests[1], S_httpsPrefix)

\* C30: the sub-timeout of the HTTP fallback is T minus the time the HTTPS
\* attempt took, so the two together never exceed T; a failed fallback is
\* counted as success exactly by the ambiguity policy applied to its own time
\* and its own sub-timeout; the one timer armed is that of the attempt in
\* flight, and when the probe is done no timer is armed and no abort can fire.
C30_TimeBudgetAndTimers ==
    /\ (ppc = "http" \/ HttpRan) =>
          /\ elapsed = awaited[1].at
          /\ remaining = timeoutMs - elapsed
          /\ remaining > 1000
          /\ elapsed + remaining <= timeoutMs
    /\ (ppc = "done" /\ HttpRan /\ awaited[2].out.kind = "throw") =>
          ((result.status = "success") <=> InferredSuccess(awaited[2], remaining))
    /\ (ppc = "https") => (timers = {"https"})
    /\ (ppc = "http") => (timers = {"http"})
    /\ (ppc = "done") =>
          /\ timers = {}
          /\ ~ENABLED HttpsAbort
          /\ ~ENABLED HttpAbort

\* C30 witness: the fallback failed just inside 0.8 of its own sub-timeout,
\* after an HTTPS attempt that took time, and was counted as success.
C30_Witness ==
    /\ ppc = "done"
    /\ HttpRan
    /\ elapsed > 0
    /\ awaited[2].out.kind = "throw"
    /\ awaited[2].at = (remaining * 8) \div 10 - 1
    /\ result.status = "success"
    /\ result.responseTime = elapsed + awaited[2].at
    /\ timers = {}

(***************************************************************************)
(* Properties of one detectProxy call, checked under SpecDetect.           *)
(***************************************************************************)
Rank == [low |-> 1, medium |-> 2, high |-> 3]
Methods == Range(detectionMethods)

\* The addresses of the model that are public: not in 10/8, 172.16/12,
\* 192.168/16 (RFC 1918) and not in 127/8.
PublicAddresses == {A_Public172, A_Public1, A_Public2}

\* spec 4.5, rule 3: the lookup succeeded, there is a local address, and one
\* local address is public and is not the external address.
MismatchSignal ==
    /\ externalIP # NullIP
    /\ Len(localIPs) >= 1
    /\ \E k \in DOMAIN localIPs :
         localIPs[k] \in PublicAddresses /\ localIPs[k] # externalIP

\* C17: in the verdict detectProxy returned, isProxyDetected is true iff the
\* detectionMethods list is not empty.
C17_DetectedIffMethods ==
    dpc = "done" =>
        /\ verdict.detectionMethods = detectionMethods
        /\ verdict.isProxyDetected <=> (Len(verdict.detectionMethods) > 0)

\* C17 witness: a verdict whose only method is the WebRTC one, with confidence
\* low and isProxyDetected true.
C17_Witness ==
    /\ dpc = "done"
    /\ verdict.detectionMethods = <<"WebRTC blocked (possible proxy)">>
    /\ verdict.confidence = "low"
    /\ verdict.isProxyDetected

\* C18: no step of detectProxy lowers confidence in the order low < medium <
\* high; and from the IP mismatch rule on, a header or TLS match means
\* confidence high.
C18_ConfidenceOnlyUpgrades ==
    /\ [][Rank[confidence'] >= Rank[confidence]]_vars
    /\ []( ( /\ dpc \in {"latency", "blocked", "return", "done"}
             /\ (headerCheck.detected \/ sslInspection.detected) )
           => confidence = "high" )

\* C18 witness: the IP mismatch rule matched after a header match, and the
\* verdict has confidence high.
C18_Witness ==
    /\ dpc = "done"
    /\ headerCheck.detected
    /\ ~sslInspection.detected
    /\ "IP address mismatch" \in Methods
    /\ verdict.confidence = "high"

\* C19: the confidence of the verdict is high iff the header probe or the TLS
\* probe detected; medium iff neither did and the IP mismatch rule matched (its
\* label is in the methods); low otherwise; and the steps of the latency rule
\* and of the WebRTC rule leave confidence as it is.
C19_FinalConfidence ==
    /\ [](dpc = "done" =>
            LET strong == headerCheck.detected \/ sslInspection.detected
                matched == "IP address mismatch" \in Methods
            IN  /\ (verdict.confidence = "high") <=> strong
                /\ (verdict.confidence = "medium") <=> (~strong /\ matched)
                /\ (verdict.confidence = "low") <=> (~strong /\ ~matched))
    /\ [][(dpc \in {"latency", "blocked"}) => (confidence' = confidence)]_vars

\* C19 witness: a header match and nothing else: high. (Without the header
\* match the same collector values give low.)
C19_Witness ==
    /\ dpc = "done"
    /\ headerCheck.detected
    /\ ~sslInspection.detected
    /\ verdict.detectionMethods = <<"Proxy headers detected">>
    /\ verdict.confidence = "high"

\* C20 as stated: the verdict lists "IP address mismatch" exactly when the
\* lookup succeeded, there is a local address, and one local address is public
\* and is not the external address.
C20_Original ==
    dpc = "done" => (("IP address mismatch" \in Methods) <=> MismatchSignal)

\* C21: the verdict lists "WebRTC blocked (possible proxy)" iff getLocalIPs
\* resolved with no address; and when it resolved with none, no header matched,
\* SSL inspection was not detected and latency <= 1000, the verdict is detected,
\* confidence low, with that label as its only method, whatever the external
\* address.
C21_WebrtcBlockedLabel ==
    dpc = "done" =>
        /\ ("WebRTC blocked (possible proxy)" \in Range(verdict.detectionMethods))
             <=> (Len(localIPs) = 0)
        /\ ( /\ Len(localIPs) = 0
             /\ ~headerCheck.detected
             /\ ~sslInspection.detected
             /\ latency <= 1000 ) =>
                /\ verdict.isProxyDetected
                /\ verdict.confidence = "low"
                /\ verdict.detectionMethods = <<"WebRTC blocked (possible proxy)">>

\* C21 witness: the scenario of the specification with an external address
\* known: no local address, no header, latency under the threshold.
C21_Witness ==
    /\ dpc = "done"
    /\ localIPs = <<>>
    /\ externalIP # NullIP
    /\ externalIP = A_Public1
    /\ ~headerCheck.detected
    /\ ~sslInspection.detected
    /\ latency = 200
    /\ verdict.isProxyDetected
    /\ verdict.confidence = "low"
    /\ verdict.detectionMethods = <<"WebRTC blocked (possible proxy)">>

\* C22 as stated (checked under SpecRerun): the verdict of a second call in an
\* unchanged environment, whose latency alone may differ, has the isProxyDetected
\* and the confidence of the first; and with the same latency it is the same
\* verdict.
C22_Original ==
    (dpc = "done" /\ firstVerdict # None) =>
        /\ verdict.isProxyDetected = firstVerdict.isProxyDetected
        /\ verdict.confidence = firstVerdict.confidence
        /\ (latency = firstVerdict.details.timing) => (verdict = firstVerdict)

(***************************************************************************)
(* Properties of one detectProxy call with its collectors, checked under   *)
(* SpecCollect.                                                            *)
(***************************************************************************)
\* C24 as stated: detectProxy never rejects, and a collector whose request
\* failed contributes an absent or empty signal to the verdict.
C24_Original ==
    /\ dpc # "rejected"
    /\ (dpc = "done") =>
          /\ (outcomes.ext.kind # "ok") => (verdict.details.externalIP = NullIP)
          /\ (outcomes.hdr.kind # "ok") =>
                (verdict.details.headers = {}
                 /\ "Proxy headers detected" \notin Range(verdict.detectionMethods))
          /\ (offer # "ok") => (verdict.details.localIPs = <<>>)

\* C25 as stated: when the handshake of the secure WebSocket has ended in an
\* error, the TLS-inspection signal the aggregator holds has detected = true,
\* and the verdict carries "SSL inspection detected" with confidence high. The
\* fold dispatches no event, so an error seen while it runs came before the
\* aggregator resumed.
C25_Original ==
    (ws = "error" /\ (FoldRunning \/ dpc = "done")) =>
        /\ sslInspection.detected
        /\ (dpc = "done") =>
              /\ verdict.sslInspection.detected
              /\ "SSL inspection detected" \in Range(verdict.detectionMethods)
              /\ verdict.confidence = "high"

\* C26 as stated: once getLocalIPs has resolved, the peer connection it created
\* is closed, its timer is not pending and its listener can no longer be called.
C26_Original ==
    (lpc = "resolved" /\ pcState # "none") =>
        /\ pcState = "closed"
        /\ iceTimer # "pending"
        /\ ~(iceListener /\ pcState = "open")

(***************************************************************************)
(* Properties of isPrivateIP, checked under SpecClassify.                  *)
(***************************************************************************)
\* The upper 16 bits of an address, and membership in the block base/bits for
\* a prefix of at most 16 bits.
Upper16(o) == o[1] * 256 + o[2]
InBlock(o, base, bits) ==
    Upper16(o) \div (2 ^ (16 - bits)) = Upper16(base) \div (2 ^ (16 - bits))

\* C23: isPrivateIP returns true for a dotted quad exactly when the address lies
\* in 10.0.0.0/8, 172.16.0.0/12, 192.168.0.0/16 or 127.0.0.0/8.
C23_PrivateRanges ==
    cpc = "done" =>
        (ipPrivate <=>
            \/ InBlock(octets, <<10, 0, 0, 0>>, 8)
            \/ InBlock(octets, <<172, 16, 0, 0>>, 12)
            \/ InBlock(octets, <<192, 168, 0, 0>>, 16)
            \/ InBlock(octets, <<127, 0, 0, 0>>, 8))

\* C23 witness: 172.31.255.255 was classified private.
C23_Witness ==
    /\ cpc = "done"
    /\ octets = <<172, 31, 255, 255>>
    /\ address = <<"1","7","2",".","3","1",".","2","5","5",".","2","5","5">>
    /\ ipPrivate

(***************************************************************************)
(* Progress properties, checked under SpecLive.                            *)
(***************************************************************************)
\* One of the three calls has been made and has not settled.
CallPending ==
    \/ ppc \in {"stun", "https", "http"}
    \/ dpc \in {"collecting", "headers", "ssl", "mismatch", "latency", "blocked", "return"}
    \/ bpc \in {"loop", "map", "await", "pause"}

\* The call that was made has settled: the probe with no abort timer left
\* armed, the batch run with its final notification emitted and its list
\* returned.
CallSettled ==
    \/ ppc = "done" /\ settled # "pending" /\ timers = {}
    \/ dpc \in {"done", "rejected"}
    \/ bpc = "done" /\ Len(returned) = N /\ lastProgress = FinalNotification

\* C27: provided timers fire, a probe that was called resolves or rejects (on
\* the HTTPS path, the HTTP fallback path and the STUN path, whose delegate
\* detectProxy settles), and a batch run over a finite list emits its final
\* notification and returns.
C27_Termination == CallPending ~> CallSettled

\* A probe whose two requests were never answered and that ended by the abort
\* timer of the HTTP attempt.
C27_Witness ==
    /\ ppc = "done"
    /\ Len(requests) = 2
    /\ Len(awaited) = 2
    /\ awaited[2].out.kind # "ok"
    /\ awaited[2].at = remaining
    /\ settled = "resolved"

(***************************************************************************)
(* Properties of one batch run, checked under SpecBatch.                   *)
(***************************************************************************)
\* The notifications the specification prescribes for the target at input
\* index k (1-based here, so `completed` is k - 1 before and k after).
BeforeProbe(k) == [completed |-> k - 1, total |-> N, current |-> endpoints[k]]
AfterProbe(k) == [completed |-> k, total |-> N, current |-> endpoints[k]]
FinalProgress == [completed |-> N, total |-> N, current |-> <<>>]
Count(n) == CopiesIn(n, emitted)
ChunkOf(k) == (k - 1) \div batchSize

\* C4: the list a finished run returns has one result per target, the k-th one
\* being the result of the k-th target's task.
C4_ResultsInInputOrder ==
    bpc = "done" =>
        /\ Len(returned) = N
        /\ \A k \in 1..N :
             /\ returned[k].url = endpoints[k]
             /\ returned[k] = batchResults[k]

\* C4 witness: a finished run over fewer targets than the chunk width.
C4_Witness ==
    /\ bpc = "done"
    /\ N = 3
    /\ N < batchSize
    /\ returned[1].url # returned[2].url
    /\ \A k \in 1..N : returned[k].url = endpoints[k]

\* C5 as stated: every notification's `completed` is at least that of the
\* notification before it.
C5_Original ==
    [][lastProgress # None => lastProgress'.completed >= lastProgress.completed]_vars

\* C6: the notification {completed: N, total: N, current: ""} is emitted at most
\* once, exactly when the run finishes; it is then the last one, every task is
\* done, nothing more can happen, and the list returned has N results; for N = 0
\* it is the only notification and the list is empty.
C6_FinalNotificationOnce ==
    /\ Count(FinalProgress) <= 1
    /\ (Count(FinalProgress) = 1) <=> (bpc = "done")
    /\ bpc = "done" =>
         /\ lastProgress = FinalProgress
         /\ \A k \in 1..N : task[k] = "done"
         /\ Len(returned) = N
         /\ ~ENABLED NextBatch
    /\ (bpc = "done" /\ N = 0) =>
         /\ emitted = SetToBag({FinalProgress})
         /\ returned = <<>>

\* C6 witness: the run over the empty list has finished.
C6_Witness ==
    /\ bpc = "done"
    /\ endpoints = <<>>
    /\ emitted = SetToBag({FinalProgress})
    /\ returned = <<>>

\* C7: when a target of a later chunk has been notified of or its probe
\* started, every task of every earlier chunk is done and has emitted its
\* completion notification.
C7_ChunkBarrier ==
    \A a \in 1..N, b \in 1..N :
        ( /\ ChunkOf(a) < ChunkOf(b)
          /\ \/ task[b] # "idle"
             \/ Count(BeforeProbe(b)) > 0
             \/ Count(AfterProbe(b)) > 0 ) =>
            /\ task[a] = "done"
            /\ Count(AfterProbe(a)) = 1

\* C7 witness: the first probe of the second chunk is in flight.
C7_Witness ==
    /\ N > batchSize
    /\ task[batchSize + 1] = "running"
    /\ \A a \in 1..batchSize : task[a] = "done"

\* C8: for the target at index k, {completed: k-1, current: target} has been
\* emitted exactly once as soon as its task has begun, and not before (it is
\* there while the probe is still to start); {completed: k, current: target}
\* has been emitted exactly once when its task is done, and not before.
C8_OneNotificationBeforeAndAfter ==
    /\ \A k \in 1..N :
         /\ Count(BeforeProbe(k)) = IF task[k] = "idle" THEN 0 ELSE 1
         /\ Count(AfterProbe(k)) = IF task[k] = "done" THEN 1 ELSE 0
    /\ bpc = "done" => \A k \in 1..N : task[k] = "done"

\* C8 witness: a finished run of two chunks.
C8_Witness ==
    /\ bpc = "done"
    /\ N > batchSize
    /\ \A k \in 1..N : Count(BeforeProbe(k)) = 1 /\ Count(AfterProbe(k)) = 1

\* C9: the run is never rejected; until it has finished it can always go on,
\* whatever tasks have ended in an error result; when it has finished every
\* target has been probed and the list holds a result for each.
C9_ErrorsDoNotAbort ==
    /\ bpc # "rejected"
    /\ bpc # "done" => ENABLED NextBatch
    /\ bpc = "done" =>
         /\ Len(returned) = N
         /\ \A k \in 1..N :
              /\ task[k] = "done"
              /\ returned[k].status \in {"success", "error"}

\* C9 witness: a finished run of two chunks whose first probe failed and
\* whose last probe, in the second chunk, succeeded.
C9_Witness ==
    /\ bpc = "done"
    /\ N > batchSize
    /\ returned[1].status = "error"
    /\ returned[N].status = "success"

\* The tasks whose probe is in flight.
InFlight == {k \in 1..N : task[k] = "running"}

\* C28: at most batchSize probes are in flight, all of them of one chunk of
\* consecutive indices; the result of a task is written once, at the task's own
\* index, when its probe is over, and the list of results holds it at that index.
C28_BoundedConcurrency ==
    /\ [](/\ Cardinality(InFlight) <= batchSize
          /\ \A a \in InFlight, b \in InFlight : ChunkOf(a) = ChunkOf(b)
          /\ \A k \in 1..N : (batchResults[k] # None) <=> (task[k] = "done")
          /\ Len(results) <= N
          /\ \A k \in 1..Len(results) :
                /\ results[k] = batchResults[k]
                /\ results[k].url = endpoints[k])
    /\ [][\A k \in 1..N :
            (batchResults'[k] # batchResults[k]) =>
                /\ batchResults[k] = None
                /\ task[k] = "running"
                /\ task'[k] = "done"
                /\ \A j \in 1..N : (j # k) => (batchResults'[j] = batchResults[j])]_vars

\* C28 witness: a whole chunk in flight at once, with a second chunk waiting.
C28_Witness ==
    /\ N > batchSize
    /\ Cardinality(InFlight) = batchSize
    /\ InFlight = 1..batchSize
    /\ task[batchSize + 1] = "idle"

=========================================================================
